---------------------------- MODULE Spec2Model ----------------------------
(***************************************************************************)
(* Model of the fitness dashboard: the backend route handlers and their    *)
(* property extractors / record mappers (server file), the frontend        *)
(* refresh cycle fetchAll and its derived views (App.tsx), and the         *)
(* Withings sync job (server.js).                                          *)
(*                                                                         *)
(* Representation of JavaScript values                                     *)
(*   undefined, null      the records Undefined and Null                   *)
(*   a number (tagged)    JNum(n); n is fixed-point, in ten-thousandths    *)
(*   a string             a sequence of chunks; a chunk is either the      *)
(*                        whitespace chunk " " or a non-empty run of       *)
(*                        non-whitespace characters; "" is <<>>            *)
(*   a string (tagged)    JStr(s)                                          *)
(*   an array (tagged)    JArr(seq)                                        *)
(*   an object            a record without the field t                     *)
(***************************************************************************)
EXTENDS Integers, Sequences, FiniteSets, TLC

VARIABLES
    notionToken,    \* process.env.NOTION_TOKEN, read once at startup
    envMeals,       \* process.env.NOTION_DB_MEALS (raw)
    envBodyComp,    \* process.env.NOTION_DB_BODYCOMP (raw)
    envTraining,    \* process.env.NOTION_DB_TRAINING (raw)
    req,            \* the route of the request being handled, or NoRequest
    res,            \* the last HTTP response the backend sent
    upstream,       \* what the upstream queries of that request returned
    call,           \* the last direct application of an extractor or mapper
    data,           \* App state: dashboard payload or Null
    roadmap,        \* App state: roadmap payload or Null
    looks,          \* App state: looksmaxx payload or Null
    loading,        \* App state: loading flag
    error,          \* App state: error string or Null
    cycles,         \* the fetchAll invocations: position and pending fetches
    started,        \* number of fetchAll invocations started so far
    last,           \* what the last completed fetchAll invocation saw and did
    job,            \* the sync job: position and locals of its current run
    tokenState,     \* the content of data/withings-token.json, or Null
    pages,          \* the pages of the body composition database
    runs            \* number of runs of the sync job started so far

serverVars == <<notionToken, envMeals, envBodyComp, envTraining, req, res, upstream>>
appVars    == <<data, roadmap, looks, loading, error, cycles, started, last>>
vars       == <<notionToken, envMeals, envBodyComp, envTraining, req, res, upstream,
                call, data, roadmap, looks, loading, error, cycles, started, last,
                job, tokenState, pages, runs>>
syncVars   == <<job, tokenState, pages, runs>>

----------------------------------------------------------------------------
(* JavaScript values *)

Undefined == [t |-> "undefined"]
Null      == [t |-> "null"]
JNum(n)   == [t |-> "number", v |-> n]
JStr(s)   == [t |-> "string", v |-> s]
JArr(a)   == [t |-> "array", v |-> a]

\* One in fixed point: numbers are counted in ten-thousandths.
Unit == 100 * 100

IsNullish(x) == x = Undefined \/ x = Null

IsObject(x) == "t" \notin DOMAIN x

\* obj?.f : undefined when obj is nullish or has no such field.
Field(obj, f) ==
    IF IsNullish(obj) \/ ~IsObject(obj) THEN Undefined
    ELSE IF f \in DOMAIN obj THEN obj[f] ELSE Undefined

\* JavaScript truthiness of a tagged value or object.
Truthy(x) ==
    IF IsObject(x) THEN TRUE
    ELSE CASE x.t = "undefined" -> FALSE
           [] x.t = "null"      -> FALSE
           [] x.t = "number"    -> x.v # 0
           [] x.t = "string"    -> x.v # <<>>
           [] OTHER             -> TRUE

\* String.prototype.trim on a chunk sequence.
RECURSIVE TrimLeft(_)
TrimLeft(s) ==
    IF s # <<>> /\ Head(s) = " " THEN TrimLeft(Tail(s)) ELSE s

RECURSIVE TrimRight(_)
TrimRight(s) ==
    IF s # <<>> /\ s[Len(s)] = " " THEN TrimRight(SubSeq(s, 1, Len(s) - 1)) ELSE s

Trim(s) == TrimRight(TrimLeft(s))

----------------------------------------------------------------------------
(* Property extractors *)

\* v.plain_text || ""
PlainText(v) ==
    LET pt == Field(v, "plain_text")
    IN  IF Truthy(pt) THEN pt.v ELSE <<>>

RECURSIVE JoinPlain(_)
JoinPlain(frags) ==
    IF frags = <<>> THEN <<>> ELSE PlainText(Head(frags)) \o JoinPlain(Tail(frags))

textArrayToString(value) ==
    IF IsObject(value) \/ value.t # "array" THEN <<>>
    ELSE Trim(JoinPlain(value.v))

propTitle(prop) == textArrayToString(Field(prop, "title"))

propRichText(prop) == textArrayToString(Field(prop, "rich_text"))

propNumber(prop) ==
    LET n == Field(prop, "number")
    IN  IF ~IsObject(n) /\ n.t = "number" THEN n.v ELSE 0

\* A date extractor that stringifies the missing start date.
propDateStringified(prop) ==
    LET s == Field(Field(prop, "date"), "start")
    IN  IF IsNullish(s) THEN <<"undefined">> ELSE s.v

propDate(prop) ==
    LET s == Field(Field(prop, "date"), "start")
    IN  IF Truthy(s) THEN s.v ELSE <<>>

propSelect(prop) ==
    LET s == Field(Field(prop, "select"), "name")
    IN  IF Truthy(s) THEN s.v ELSE <<>>

\* props[k] !== undefined: a property map parsed from JSON holds no undefined
\* value, so a key is defined exactly when it is in the map.
Defined(props, k) == k \in DOMAIN props

\* A lookup that tests the value's content instead of the key's existence.
RECURSIVE firstExistingSkipEmpty(_, _)
firstExistingSkipEmpty(props, keys) ==
    IF keys = <<>> THEN Undefined
    ELSE IF Defined(props, Head(keys)) /\ ~IsNullish(props[Head(keys)])
            /\ props[Head(keys)] # [number |-> JNum(0)]
         THEN props[Head(keys)]
    ELSE firstExistingSkipEmpty(props, Tail(keys))

RECURSIVE firstExisting(_, _)
firstExisting(props, keys) ==
    IF keys = <<>> THEN Undefined
    ELSE IF Defined(props, Head(keys)) THEN props[Head(keys)]
    ELSE firstExisting(props, Tail(keys))


----------------------------------------------------------------------------
(* Record mappers of GET /api/dashboard *)

\* A number collapse that keeps zero.
NumKept(n) == JNum(n)

\* x || null for a number
NumOrNull(n) == IF n # 0 THEN JNum(n) ELSE Null

\* x || null for a string
StrOrNull(s) == IF s # <<>> THEN JStr(s) ELSE Null

\* x || fallback for strings
StrOr(s, fallback) == IF s # <<>> THEN s ELSE fallback

\* r.properties || {}
EmptyObject == [k \in {} |-> Null]

Properties(r) ==
    LET p == Field(r, "properties")
    IN  IF Truthy(p) THEN p ELSE EmptyObject

\* Number(x.toFixed(1)): the nearest multiple of one tenth, a tie going to the
\* larger magnitude.
ToFixed1(x) ==
    LET tenth == Unit \div 10
        mag   == IF x < 0 THEN -x ELSE x
        near  == ((mag + tenth \div 2) \div tenth) * tenth
    IN  IF x < 0 THEN -near ELSE near

mealMapper(r) ==
    LET p == Properties(r)
    IN  [food     |-> propTitle(firstExisting(p, <<"Food", "Name", "Meal", "Title">>)),
         date     |-> propDate(firstExisting(p, <<"Date", "Log Date">>)),
         meal     |-> propSelect(firstExisting(p, <<"Meal", "Meal Type">>)),
         calories |-> propNumber(firstExisting(p, <<"Calories", "kcal">>)),
         protein  |-> propNumber(firstExisting(p, <<"Protein", "Protein (g)">>)),
         carbs    |-> NumOrNull(propNumber(firstExisting(p, <<"Carbs", "Carbs (g)">>))),
         fat      |-> NumOrNull(propNumber(firstExisting(p, <<"Fat", "Fat (g)">>))),
         source   |-> StrOr(propSelect(firstExisting(p, <<"Source", "Type">>)), <<"Other">>)]

\* The body-fat rule with the upper end of the fraction range left out.
bodyFatOfOpenRange(rawBodyFat) ==
    IF rawBodyFat > 0 /\ rawBodyFat < Unit
    THEN ToFixed1(rawBodyFat * 100)
    ELSE rawBodyFat

\* rawBodyFat > 0 && rawBodyFat <= 1 ? Number((rawBodyFat * 100).toFixed(1)) : rawBodyFat
bodyFatOf(rawBodyFat) ==
    IF rawBodyFat > 0 /\ rawBodyFat <= Unit
    THEN ToFixed1(rawBodyFat * 100)
    ELSE rawBodyFat

bodyCompMapper(r) ==
    LET p == Properties(r)
        rawBodyFat == propNumber(firstExisting(p, <<"Body Fat", "Body Fat %">>))
    IN  [date       |-> propDate(firstExisting(p, <<"Date", "Log Date">>)),
         weight     |-> propNumber(firstExisting(p, <<"Weight", "Weight (lbs)">>)),
         bodyFat    |-> bodyFatOf(rawBodyFat),
         muscleMass |-> propNumber(firstExisting(p,
                            <<"Muscle Mass (lbs)", "Muscle Mass", "Muscle (lbs)">>)),
         leanMass   |-> NumOrNull(propNumber(firstExisting(p,
                            <<"Lean Mass (lbs)", "Lean Mass", "Lean (lbs)">>))),
         bmi        |-> NumOrNull(propNumber(firstExisting(p, <<"BMI">>))),
         bmr        |-> NumOrNull(propNumber(firstExisting(p, <<"BMR", "BMR (kcal)">>))),
         notes      |-> StrOrNull(propRichText(firstExisting(p, <<"Notes">>)))]

\* A reps rule that prefers the number to the text.
RepsOfNumericFirst(repsText, repsNum) ==
    IF repsNum # 0 THEN JNum(repsNum)
    ELSE IF repsText # <<>> THEN JStr(repsText)
    ELSE JStr(<<"Unknown">>)

\* repsText || repsNum || "Unknown"
RepsOf(repsText, repsNum) ==
    IF repsText # <<>> THEN JStr(repsText)
    ELSE IF repsNum # 0 THEN JNum(repsNum)
    ELSE JStr(<<"Unknown">>)

trainingMapper(r) ==
    LET p == Properties(r)
        repsText == propRichText(firstExisting(p, <<"Actual Reps", "Target Reps", "Reps">>))
        repsNum  == propNumber(firstExisting(p, <<"Actual Reps", "Reps">>))
    IN  [exercise    |-> StrOr(propSelect(firstExisting(p, <<"Exercise">>)),
                               propTitle(firstExisting(p, <<"Name", "Title">>))),
         date        |-> propDate(firstExisting(p, <<"Date", "Log Date">>)),
         weight      |-> propNumber(firstExisting(p, <<"Weight (lbs)", "Weight">>)),
         sets        |-> propNumber(firstExisting(p, <<"Sets">>)),
         reps        |-> RepsOf(repsText, repsNum),
         workoutType |-> propSelect(firstExisting(p, <<"Workout", "Workout Type", "Type">>)),
         notes       |-> StrOrNull(propRichText(firstExisting(p, <<"Notes">>)))]

\* Array.prototype.map
MapSeq(F(_), s) == [i \in 1..Len(s) |-> F(s[i])]

\* Array.prototype.slice(0, n)
Take(s, n) == SubSeq(s, 1, IF Len(s) < n THEN Len(s) ELSE n)

----------------------------------------------------------------------------
(* Direct application of the extractors and mappers to bounded inputs *)

\* Longest candidate-key list tried.
MaxKeys == 2

KeyNames == {"Date", "Log Date", "Notes"}

\* Property objects as the workspace database returns them, and null.
PropValues ==
    { Null,
      [number |-> JNum(0)],
      [number |-> JNum(3 * Unit)],
      [date |-> [start |-> JStr(<<"2026-06-01">>)]],
      [select |-> [name |-> JStr(<<"Push">>)]],
      [rich_text |-> JArr(<< [plain_text |-> JStr(<<" ", "8-10">>)], [href |-> Null] >>)],
      [title |-> JArr(<<>>)] }

\* Every property map over KeyNames.
PropMaps ==
    UNION { [ks -> PropValues] : ks \in SUBSET KeyNames }

KeyLists ==
    UNION { [1..n -> KeyNames] : n \in 0..MaxKeys }

ExtractorKinds == {"title", "rich_text", "number", "date", "select"}

\* The extractor of a kind, its result tagged as a JavaScript value.
Extract(kind, prop) ==
    CASE kind = "title"     -> JStr(propTitle(prop))
      [] kind = "rich_text" -> JStr(propRichText(prop))
      [] kind = "number"    -> JNum(propNumber(prop))
      [] kind = "date"      -> JStr(propDate(prop))
      [] kind = "select"    -> JStr(propSelect(prop))

NoCall == [fn |-> "none"]

\* The applications awaiting evaluation: a function and its arguments.
FirstExistingInputs ==
    { [fn |-> "firstExisting", props |-> props, keys |-> keys] :
          props \in PropMaps, keys \in KeyLists }

ExtractorInputs ==
    { [fn |-> "extract", kind |-> kind, props |-> props, keys |-> keys] :
          kind \in ExtractorKinds, props \in PropMaps, keys \in KeyLists }

Applied(c) == "out" \in DOMAIN c

\* c with the field out added.
WithOut(c, v) == [k \in DOMAIN c \cup {"out"} |-> IF k = "out" THEN v ELSE c[k]]

CallFirstExisting ==
    /\ call.fn = "firstExisting"
    /\ ~Applied(call)
    /\ call' = WithOut(call, firstExisting(call.props, call.keys))
    /\ UNCHANGED <<serverVars, appVars, syncVars>>

CallExtractor ==
    /\ call.fn = "extract"
    /\ ~Applied(call)
    /\ call' = WithOut(call, Extract(call.kind, firstExisting(call.props, call.keys)))
    /\ UNCHANGED <<serverVars, appVars, syncVars>>

\* Raw body-fat readings, in ten-thousandths: negative, zero, fractions
\* (among them ties of the rounding), one, and percentages above one.
BodyFatReadings ==
    { -5000, -1, 0, 1, 4, 5, 1234, 1235, 1550, 9994, 9995, 9999, Unit,
      Unit + 1, 15000, 182500, 182549 }

BodyCompRecords ==
    { [id |-> "b", properties |-> (k :> [number |-> JNum(r)])] :
          k \in {"Body Fat", "Body Fat %"}, r \in BodyFatReadings }
    \cup { [id |-> "b", properties |-> ("Body Fat" :> v)] :
          v \in {Null, [number |-> Null]} }
    \cup { [id |-> "b"], [id |-> "b", properties |-> Null] }

BodyCompInputs == { [fn |-> "bodyComp", r |-> r] : r \in BodyCompRecords }

CallBodyCompMapper ==
    /\ call.fn = "bodyComp"
    /\ ~Applied(call)
    /\ call' = WithOut(call, bodyCompMapper(call.r))
    /\ UNCHANGED <<serverVars, appVars, syncVars>>

\* Number properties as logged: zero, a count, an emptied number, a property of
\* another type, and null.
NumberProps ==
    { [number |-> JNum(0)],
      [number |-> JNum(250 * Unit)],
      [number |-> Null],
      [select |-> [name |-> JStr(<<"Snack">>)]],
      Null }

MealNumberKeys == <<"Calories", "kcal", "Protein", "Carbs", "Fat (g)">>

\* A meal record holding the number properties vs, MealNumberKeys[i] being
\* absent when vs[i] is Undefined.
MealRecordOf(vs) ==
    LET held == {i \in DOMAIN vs : vs[i] # Undefined}
        key(k) == CHOOSE i \in held : MealNumberKeys[i] = k
    IN  [id |-> "m",
         properties |-> [k \in {MealNumberKeys[i] : i \in held} |-> vs[key(k)]]]

MealMapperRecords ==
    { MealRecordOf(vs) : vs \in [DOMAIN MealNumberKeys -> NumberProps \cup {Undefined}] }
    \cup { [id |-> "m"], [id |-> "m", properties |-> Null] }

MealInputs == { [fn |-> "meal", r |-> r] : r \in MealMapperRecords }

CallMealMapper ==
    /\ call.fn = "meal"
    /\ ~Applied(call)
    /\ call' = WithOut(call, mealMapper(call.r))
    /\ UNCHANGED <<serverVars, appVars, syncVars>>

\* Reps properties as logged: a range as text, blank text, emptied text, a
\* count, zero, and null.
RepsProps ==
    { [rich_text |-> JArr(<<[plain_text |-> JStr(<<"8-10">>)]>>)],
      [rich_text |-> JArr(<<[plain_text |-> JStr(<<" ">>)]>>)],
      [rich_text |-> JArr(<<>>)],
      [number |-> JNum(8 * Unit)],
      [number |-> JNum(0)],
      Null }

RepsKeys == {"Actual Reps", "Target Reps", "Reps"}

TrainingMapperRecords ==
    { [id |-> "t", properties |-> p] : p \in UNION { [ks -> RepsProps] : ks \in SUBSET RepsKeys } }
    \cup { [id |-> "t"], [id |-> "t", properties |-> Null] }

TrainingInputs == { [fn |-> "training", r |-> r] : r \in TrainingMapperRecords }

CallTrainingMapper ==
    /\ call.fn = "training"
    /\ ~Applied(call)
    /\ call' = WithOut(call, trainingMapper(call.r))
    /\ UNCHANGED <<serverVars, appVars, syncVars>>

----------------------------------------------------------------------------
(* Backend configuration *)

\* String.prototype.toLowerCase, one character per chunk.
ToLowerChar(c) ==
    CASE c = "A" -> "a"
      [] c = "F" -> "f"
      [] c = "Z" -> "z"
      [] OTHER   -> c

\* The characters /[^a-f0-9-]/g keeps.
IdChars == {"a", "b", "c", "d", "e", "f", "0", "1", "2", "3", "4", "5", "6", "7",
            "8", "9", "-"}

RECURSIVE StripNonId(_)
StripNonId(s) ==
    IF s = <<>> THEN <<>>
    ELSE (IF ToLowerChar(Head(s)) \in IdChars THEN <<ToLowerChar(Head(s))>> ELSE <<>>)
         \o StripNonId(Tail(s))

\* (v || "").toLowerCase().replace(/[^a-f0-9-]/g, "").trim()
normalizeId(v) == Trim(StripNonId(IF Truthy(v) THEN v.v ELSE <<>>))

dbMeals    == normalizeId(envMeals)
dbBodyComp == normalizeId(envBodyComp)
dbTraining == normalizeId(envTraining)

\* Values an environment variable can have: unset, empty, or text.
EnvTokens == {Undefined, JStr(<<>>), JStr(<<"secret">>)}

EnvIds == {Undefined, JStr(<<>>), JStr(<<" ", "Z">>), JStr(<<"A", "-", "9">>)}

----------------------------------------------------------------------------
(* Promises and thrown values *)

Fulfilled(v) == [ok |-> TRUE, value |-> v]
Rejected(e)  == [ok |-> FALSE, thrown |-> e]

\* What a failing call throws: an Error with a message (possibly empty), or a
\* value that is no Error.
ThrownValues ==
    { [isError |-> TRUE, message |-> <<>>],
      [isError |-> TRUE, message |-> <<"upstream_failed">>],
      [isError |-> FALSE] }

\* error instanceof Error ? error.message : fallback
ErrorMessage(e, fallback) == IF e.isError THEN e.message ELSE fallback

\* Promise.all over settled promises: fulfilled with all the values when every
\* one is fulfilled, else rejected with the reason of whichever rejected first.
PromiseAll(ps) ==
    IF \A i \in DOMAIN ps : ps[i].ok
    THEN { Fulfilled([i \in DOMAIN ps |-> ps[i].value]) }
    ELSE { Rejected(ps[i].thrown) : i \in {j \in DOMAIN ps : ~ps[j].ok} }

\* The outcomes of notion.dataSources.query over a set of raw records.
MaxRecords == 1

Lists(S) == UNION { [1..n -> S] : n \in 0..MaxRecords }

QueryOutcomes(S) ==
    { Fulfilled([results |-> l]) : l \in Lists(S) } \cup { Rejected(e) : e \in ThrownValues }

\* The clock: new Date() at the instants 1..MaxTime.
MaxTime == 2

Times == 1..MaxTime

\* ISO calendar dates, ascending; toISOString().slice(0, 10) of instant t is
\* IsoDates[t].
IsoDates == << "2026-01-01", "2026-06-01", "2026-12-01", "2027-03-01", "2027-09-01" >>

\* The date strings that occur, in code-unit order.
CalendarDates ==
    << "2026-01-01", "2026-02-01", "2026-06-01", "2026-12-01", "2027-03-01", "2027-09-01",
       "2027-09-02", "2027-09-03", "2027-09-04", "2027-09-05" >>

\* The rank of a date string in code-unit order; the empty string is first,
\* and a string that is no date begins with a letter, after every digit.
DateRank(s) ==
    IF s = <<>> THEN 0
    ELSE IF \E i \in DOMAIN CalendarDates : CalendarDates[i] = s[1]
    THEN CHOOSE i \in DOMAIN CalendarDates : CalendarDates[i] = s[1]
    ELSE Len(CalendarDates) + 1

\* a.localeCompare(b) on date strings
localeCompare(a, b) == DateRank(a) - DateRank(b)

----------------------------------------------------------------------------
(* GET /api/dashboard *)

NoRequest  == "none"
NoResponse == [status |-> 0]

\* The response a handler sent, with the route it answered.
Sent(route, r) == [route |-> route, status |-> r.status, body |-> r.body]
NoQuery    == [queried |-> FALSE]

MissingEnvMessage == <<"Missing", " ", "Notion", " ", "env", " ", "vars.">>

\* The configuration guard with the identifier checks dropped.
ConfigMissingTokenOnly == ~Truthy(notionToken)

\* !notionToken || !dbMeals || !dbBodyComp || !dbTraining
ConfigMissing ==
    \/ ~Truthy(notionToken)
    \/ dbMeals = <<>>
    \/ dbBodyComp = <<>>
    \/ dbTraining = <<>>

dashboardError(status, now, message) ==
    [status |-> status,
     body   |-> [meals |-> <<>>, bodyComp |-> <<>>, training |-> <<>>,
                 updatedAt |-> now, error |-> message]]

\* A handler whose catch clause answers with the default status.
dashboardSettledAlwaysOk(now, all) ==
    IF all.ok
    THEN [status |-> 200,
          body   |-> [meals     |-> MapSeq(mealMapper, all.value[1].results),
                      bodyComp  |-> MapSeq(bodyCompMapper, all.value[2].results),
                      training  |-> MapSeq(trainingMapper, all.value[3].results),
                      updatedAt |-> now]]
    ELSE [status |-> 200,
          body   |-> [meals |-> <<>>, bodyComp |-> <<>>, training |-> <<>>,
                      updatedAt |-> now]]

\* The handler once Promise.all has settled: the mapped collections, or the
\* catch clause.
dashboardSettled(now, all) ==
    IF all.ok
    THEN [status |-> 200,
          body   |-> [meals     |-> MapSeq(mealMapper, all.value[1].results),
                      bodyComp  |-> MapSeq(bodyCompMapper, all.value[2].results),
                      training  |-> MapSeq(trainingMapper, all.value[3].results),
                      updatedAt |-> now]]
    ELSE dashboardError(500, now, ErrorMessage(all.thrown, <<"Unknown", " ", "server", " ", "error">>))

\* Raw records of the three dashboard data sources.
MealRecords ==
    { [id |-> "m1", properties |->
          ("Food" :> [title |-> JArr(<<[plain_text |-> JStr(<<"Oats">>)]>>)]
           @@ "Calories" :> [number |-> JNum(0)]
           @@ "Date" :> [date |-> [start |-> JStr(<<"2026-06-01">>)]])],
      [id |-> "m2"] }

TrainingRecords ==
    { [id |-> "t1", properties |->
          ("Exercise" :> [select |-> [name |-> JStr(<<"Bench">>)]]
           @@ "Weight" :> [number |-> JNum(100 * Unit)]
           @@ "Reps" :> [number |-> JNum(8 * Unit)])],
      [id |-> "t2", properties |-> Null] }

DashboardBodyRecords ==
    { [id |-> "b", properties |-> ("Body Fat" :> [number |-> JNum(1550)])],
      [id |-> "b", properties |-> ("Body Fat %" :> [number |-> JNum(182500)])] }

GetDashboard ==
    /\ req = "/api/dashboard"
    /\ \E now \in Times :
          IF ConfigMissing
          THEN /\ res' = Sent(req, dashboardError(400, now, MissingEnvMessage))
               /\ upstream' = NoQuery
          ELSE \E qm \in QueryOutcomes(MealRecords),
                  qb \in QueryOutcomes(DashboardBodyRecords),
                  qt \in QueryOutcomes(TrainingRecords) :
                  \E all \in PromiseAll(<<qm, qb, qt>>) :
                      /\ res' = Sent(req, dashboardSettled(now, all))
                      /\ upstream' = [queried |-> TRUE, queries |-> <<qm, qb, qt>>,
                                      all |-> all]
    /\ req' = NoRequest
    /\ UNCHANGED <<notionToken, envMeals, envBodyComp, envTraining, call, appVars, syncVars>>

----------------------------------------------------------------------------
(* GET /api/looksmaxx *)

looksFallback(now) ==
    [updatedAt |-> now, dailyCount |-> 0, fitnessCount |-> 0, productsCount |-> 0,
     goalsCount |-> 0, latestDaily |-> <<>>, latestGoals |-> <<>>]

\* {...fallback, error: message}
WithError(body, message) ==
    [k \in DOMAIN body \cup {"error"} |-> IF k = "error" THEN message ELSE body[k]]

\* props || {}
OrEmptyObject(props) == IF Truthy(props) THEN props ELSE EmptyObject

mapTitle(props) ==
    StrOr(propTitle(firstExisting(OrEmptyObject(props),
                                  <<"Name", "Title", "Goal", "Entry", "Task">>)),
          <<"Untitled">>)

mapDate(props) ==
    propDate(firstExisting(OrEmptyObject(props), <<"Date", "Created", "When", "Log Date">>))

mapStatus(props) ==
    LET p == firstExisting(OrEmptyObject(props), <<"Status", "State", "Progress">>)
    IN  StrOr(propSelect(p), propRichText(p))

latestDailyEntry(r) ==
    [title |-> mapTitle(Field(r, "properties")), date |-> mapDate(Field(r, "properties"))]

latestGoalsEntry(r) ==
    [title |-> mapTitle(Field(r, "properties")), status |-> mapStatus(Field(r, "properties"))]

looksSettled(now, all) ==
    IF all.ok
    THEN [status |-> 200,
          body   |-> [updatedAt     |-> now,
                      dailyCount    |-> Len(all.value[1].results),
                      fitnessCount  |-> Len(all.value[2].results),
                      productsCount |-> Len(all.value[3].results),
                      goalsCount    |-> Len(all.value[4].results),
                      latestDaily   |-> MapSeq(latestDailyEntry,
                                               Take(all.value[1].results, 5)),
                      latestGoals   |-> MapSeq(latestGoalsEntry,
                                               Take(all.value[4].results, 5))]]
    ELSE [status |-> 200,
          body   |-> WithError(looksFallback(now),
                               ErrorMessage(all.thrown, <<"looksmaxx_error">>))]

DailyRecords ==
    { [id |-> "d1", properties |->
          ("Entry" :> [title |-> JArr(<<[plain_text |-> JStr(<<"Skin">>)]>>)]
           @@ "Date" :> [date |-> [start |-> JStr(<<"2026-06-01">>)]])] }

GoalRecords ==
    { [id |-> "g1", properties |->
          ("Goal" :> [title |-> JArr(<<>>)]
           @@ "Status" :> [rich_text |-> JArr(<<[plain_text |-> JStr(<<"Doing">>)]>>)])] }

CountedRecords == { [id |-> "c1"] }

GetLooksmaxx ==
    /\ req = "/api/looksmaxx"
    /\ \E now \in Times :
          IF ~Truthy(notionToken)
          THEN /\ res' = Sent(req, [status |-> 200, body |-> looksFallback(now)])
               /\ upstream' = NoQuery
          ELSE \E qd \in QueryOutcomes(DailyRecords),
                  qf \in QueryOutcomes(CountedRecords),
                  qp \in QueryOutcomes(CountedRecords),
                  qg \in QueryOutcomes(GoalRecords) :
                  \E all \in PromiseAll(<<qd, qf, qp, qg>>) :
                      /\ res' = Sent(req, looksSettled(now, all))
                      /\ upstream' = [queried |-> TRUE, queries |-> <<qd, qf, qp, qg>>,
                                      all |-> all]
    /\ req' = NoRequest
    /\ UNCHANGED <<notionToken, envMeals, envBodyComp, envTraining, call, appVars, syncVars>>

----------------------------------------------------------------------------
(* GET /api/roadmap *)

roadmapFallback(now) ==
    [updatedAt |-> now, items |-> <<>>, byPhase |-> <<>>, nextMilestones |-> <<>>]

roadmapItem(r) ==
    LET p == Properties(r)
    IN  [milestone     |-> StrOr(propTitle(firstExisting(p, <<"Milestone", "Name", "Title">>)),
                                 <<"Untitled">>),
         phase         |-> propSelect(firstExisting(p, <<"Phase">>)),
         type          |-> propSelect(firstExisting(p, <<"Type">>)),
         date          |-> propDate(firstExisting(p, <<"Date">>)),
         notes         |-> propRichText(firstExisting(p, <<"Notes">>)),
         targetWeight  |-> propNumber(firstExisting(p, <<"Target Weight">>)),
         targetBodyFat |-> propNumber(firstExisting(p, <<"Target BF%", "Target BF">>)),
         targetMuscle  |-> propNumber(firstExisting(p, <<"Target Muscle">>))]

\* An insertion under the comparator with its arguments swapped.
RECURSIVE InsertByDateDescending(_, _)
InsertByDateDescending(x, sorted) ==
    IF sorted = <<>> THEN <<x>>
    ELSE IF localeCompare(Head(sorted).date, x.date) < 0 THEN <<x>> \o sorted
    ELSE <<Head(sorted)>> \o InsertByDateDescending(x, Tail(sorted))

\* Array.prototype.sort with the comparator (a, b) => a.date.localeCompare(b.date):
\* a stable sort, here by insertion.
RECURSIVE InsertByDate(_, _)
InsertByDate(x, sorted) ==
    IF sorted = <<>> THEN <<x>>
    ELSE IF localeCompare(x.date, Head(sorted).date) < 0 THEN <<x>> \o sorted
    ELSE <<Head(sorted)>> \o InsertByDate(x, Tail(sorted))

RECURSIVE SortByDate(_)
SortByDate(s) ==
    IF s = <<>> THEN <<>>
    ELSE InsertByDate(s[Len(s)], SortByDate(SubSeq(s, 1, Len(s) - 1)))

\* A phase key without the substitute for the empty phase.
PhaseKeyRaw(i) == i.phase

\* i.phase || 'Unassigned'
PhaseKey(i) == StrOr(i.phase, <<"Unassigned">>)

\* The Map of phase counts as its entries, in insertion order.
RECURSIVE byPhaseOf(_)
byPhaseOf(items) ==
    IF items = <<>> THEN <<>>
    ELSE LET before == byPhaseOf(SubSeq(items, 1, Len(items) - 1))
             k      == PhaseKey(items[Len(items)])
         IN  IF \E j \in DOMAIN before : before[j].name = k
             THEN [j \in DOMAIN before |->
                      IF before[j].name = k
                      THEN [name |-> k, value |-> before[j].value + 1]
                      ELSE before[j]]
             ELSE before \o << [name |-> k, value |-> 1] >>

\* Array.prototype.filter
RECURSIVE FilterSeq(_, _)
FilterSeq(P(_), s) ==
    IF s = <<>> THEN <<>>
    ELSE (IF P(Head(s)) THEN <<Head(s)>> ELSE <<>>) \o FilterSeq(P, Tail(s))

milestoneOf(i) == [milestone |-> i.milestone, date |-> i.date, phase |-> i.phase]

\* The length of the next-milestones slice.
MilestoneLimit == 8

\* A slice taken before the filter instead of after it.
nextMilestonesOfSlicedFirst(items, today) ==
    LET Upcoming(i) == i.date = <<>> \/ DateRank(i.date) >= DateRank(today)
    IN  MapSeq(milestoneOf, FilterSeq(Upcoming, Take(items, MilestoneLimit)))

\* items.filter(i => !i.date || i.date >= today).slice(0, 8).map(...)
nextMilestonesOf(items, today) ==
    LET Upcoming(i) == i.date = <<>> \/ DateRank(i.date) >= DateRank(today)
    IN  MapSeq(milestoneOf, Take(FilterSeq(Upcoming, items), MilestoneLimit))

roadmapSettled(now, rows) ==
    IF rows.ok
    THEN LET items == SortByDate(MapSeq(roadmapItem, rows.value.results))
         IN  [status |-> 200,
              body   |-> [updatedAt      |-> now,
                          items          |-> items,
                          byPhase        |-> byPhaseOf(items),
                          nextMilestones |-> nextMilestonesOf(items, <<IsoDates[now]>>)]]
    ELSE [status |-> 200,
          body   |-> WithError(roadmapFallback(now),
                               ErrorMessage(rows.thrown, <<"roadmap_error">>))]

RoadmapRecords ==
    { [id |-> "r1", properties |->
          ("Milestone" :> [title |-> JArr(<<[plain_text |-> JStr(<<"Cut">>)]>>)]
           @@ "Phase" :> [select |-> [name |-> JStr(<<"P1">>)]]
           @@ "Date" :> [date |-> [start |-> JStr(<<"2026-12-01">>)]])],
      [id |-> "r2", properties |->
          ("Date" :> [date |-> [start |-> JStr(<<"2026-01-01">>)]])],
      [id |-> "r3"] }

GetRoadmap ==
    /\ req = "/api/roadmap"
    /\ \E now \in Times :
          IF ~Truthy(notionToken)
          THEN /\ res' = Sent(req, [status |-> 200, body |-> roadmapFallback(now)])
               /\ upstream' = NoQuery
          ELSE \E rows \in QueryOutcomes(RoadmapRecords) :
                  /\ res' = Sent(req, roadmapSettled(now, rows))
                  /\ upstream' = [queried |-> TRUE, queries |-> <<rows>>, all |-> rows]
    /\ req' = NoRequest
    /\ UNCHANGED <<notionToken, envMeals, envBodyComp, envTraining, call, appVars, syncVars>>

\* Longest list of arbitrary roadmap rows the handler is applied to.
MaxItems == 4

\* Rows of the roadmap data source: dated ahead with a phase, dated back
\* without one, bare, and dated in between with another phase.
RoadmapRows ==
    RoadmapRecords \cup
    { [id |-> "r4", properties |->
          ("Milestone" :> [title |-> JArr(<<[plain_text |-> JStr(<<"Bulk">>)]>>)]
           @@ "Phase" :> [select |-> [name |-> JStr(<<"P2">>)]]
           @@ "Date" :> [date |-> [start |-> JStr(<<"2026-06-01">>)]])] }

\* Result sets: every short list of rows, and every short list followed by as
\* many copies of one row as the next-milestones slice is long.
RoadmapResults ==
    LET short == UNION { [1..n -> RoadmapRows] : n \in 0..MaxItems }
    IN  short \cup { l \o [i \in 1..MilestoneLimit |-> r] : l \in short, r \in RoadmapRows }

RoadmapInputs ==
    { [fn |-> "roadmap", rows |-> l, now |-> t] : l \in RoadmapResults, t \in Times }

\* The try block of the handler on a result set, at instant now.
CallRoadmap ==
    /\ call.fn = "roadmap"
    /\ ~Applied(call)
    /\ call' = WithOut(call, roadmapSettled(call.now,
                                            Fulfilled([results |-> call.rows])).body)
    /\ UNCHANGED <<serverVars, appVars, syncVars>>

\* A GET request reaches the express router.
Routes == {"/api/dashboard", "/api/looksmaxx", "/api/roadmap"}

Request ==
    /\ req = NoRequest
    /\ \E route \in Routes : req' = route
    /\ res' = NoResponse
    /\ upstream' = NoQuery
    /\ UNCHANGED <<notionToken, envMeals, envBodyComp, envTraining, call, appVars, syncVars>>

----------------------------------------------------------------------------
(* The frontend refresh cycle: fetchAll of App *)

\* Number of fetchAll invocations (the initial load and the Refresh clicks).
MaxRefreshes == 2

Sources == {"dashboard", "roadmap", "looks"}

\* A Response whose body is JSON, as a backend handler sent it.
Http(r) == [status |-> r.status, parsed |-> TRUE, json |-> r.body]

\* A Response whose body is no JSON (a gateway's error page): json() rejects.
Unparsable(status) == [status |-> status, parsed |-> FALSE]

\* Response.ok
Ok(reply) == reply.status >= 200 /\ reply.status <= 299

UpstreamError == [isError |-> TRUE, message |-> <<"upstream_failed">>]
EmptyError    == [isError |-> TRUE, message |-> <<>>]

\* What the backend can answer the c-th refresh, which it handles at instant c,
\* and what a gateway in front of it can.
DashboardReplies(c) ==
    { Http(dashboardError(400, c, MissingEnvMessage)),
      Http(dashboardSettled(c, Rejected(UpstreamError))),
      Http(dashboardSettled(c, Rejected(EmptyError))),
      Http(dashboardSettled(c, Fulfilled(<< [results |-> <<>>],
                                            [results |-> <<>>],
                                            [results |-> <<>>] >>))),
      Http(dashboardSettled(c, Fulfilled(<< [results |-> <<[id |-> "m2"]>>],
                                            [results |-> <<>>],
                                            [results |-> <<>>] >>))),
      Unparsable(502) }

RoadmapReplies(c) ==
    { Http([status |-> 200, body |-> roadmapFallback(c)]),
      Http(roadmapSettled(c, Rejected(UpstreamError))),
      Http(roadmapSettled(c, Fulfilled([results |-> <<>>]))),
      Unparsable(502) }

LooksReplies(c) ==
    { Http([status |-> 200, body |-> looksFallback(c)]),
      Http(looksSettled(c, Rejected(UpstreamError))),
      Http(looksSettled(c, Fulfilled(<< [results |-> <<>>], [results |-> <<>>],
                                        [results |-> <<>>], [results |-> <<>>] >>))),
      Unparsable(502) }

\* fetch() rejects with a TypeError; json() with a SyntaxError.
FetchFailure == [isError |-> TRUE, message |-> <<"Failed", " ", "to", " ", "fetch">>]
ParseFailure == [isError |-> TRUE, message |-> <<"Unexpected", " ", "token">>]

\* json.error ?? fallback
ErrorOr(json, fallback) == IF "error" \in DOMAIN json THEN json.error ELSE fallback

NotStarted == [pc |-> "idle", pending |-> {}]

\* fetchAll is called: setLoading(true); setError(null); the three fetches go out.
StartRefresh ==
    /\ started < MaxRefreshes
    /\ started' = started + 1
    /\ loading' = TRUE
    /\ error' = Null
    /\ cycles' = [cycles EXCEPT ![started + 1] = [pc |-> "awaiting", pending |-> Sources]]
    /\ UNCHANGED <<data, roadmap, looks, last, serverVars, call, syncVars>>

\* Promise.race in the place of Promise.all: the first Response settles it.
FetchFulfilledRace ==
    \E c \in DOMAIN cycles : \E src \in cycles[c].pending :
        /\ cycles[c].pc = "awaiting"
        /\ cycles' = [cycles EXCEPT ![c] =
                         [pc |-> "settled", pending |-> @.pending \ {src}]]
        /\ UNCHANGED <<data, roadmap, looks, loading, error, started, last,
                       serverVars, call, syncVars>>

\* One fetch of an awaited Promise.all is fulfilled with a Response.
FetchFulfilled ==
    \E c \in DOMAIN cycles : \E src \in cycles[c].pending :
        /\ cycles[c].pc = "awaiting"
        /\ cycles' = [cycles EXCEPT ![c] =
                         [pc      |-> IF @.pending = {src} THEN "settled" ELSE "awaiting",
                          pending |-> @.pending \ {src}]]
        /\ UNCHANGED <<data, roadmap, looks, loading, error, started, last,
                       serverVars, call, syncVars>>

\* One fetch is rejected: Promise.all rejects and the catch and finally
\* clauses run, whatever is still pending.
FetchRejected ==
    \E c \in DOMAIN cycles : \E src \in cycles[c].pending :
        /\ cycles[c].pc = "awaiting"
        /\ cycles' = [cycles EXCEPT ![c] = [pc |-> "done", pending |-> @.pending \ {src}]]
        /\ error' = JStr(ErrorMessage(FetchFailure, <<"Failed", " ", "to", " ", "load", " ", "data">>))
        /\ loading' = FALSE
        /\ last' = [cycle |-> c, step |-> "rejected", src |-> src,
                    before |-> [data |-> data, roadmap |-> roadmap, looks |-> looks]]
        /\ UNCHANGED <<data, roadmap, looks, started, serverVars, call, syncVars>>

\* fetchAll with a guard that drops a dashboard payload older than the stored
\* one.
afterResponsesNewestWins(d, r, l) ==
    LET st == [data |-> data, roadmap |-> roadmap, looks |-> looks, error |-> error]
        caught(e) == [st EXCEPT !.error =
                         JStr(ErrorMessage(e, <<"Failed", " ", "to", " ", "load", " ", "data">>))]
    IN  IF ~d.parsed \/ ~r.parsed \/ ~l.parsed THEN caught(ParseFailure)
        ELSE IF ~Ok(d)
        THEN caught([isError |-> TRUE,
                     message |-> ErrorOr(d.json, <<"Failed", " ", "to", " ", "fetch", " ", "dashboard">>)])
        ELSE [st EXCEPT !.roadmap = IF Ok(r) THEN r.json ELSE @,
                        !.looks   = IF Ok(l) THEN l.json ELSE @,
                        !.data    = IF data # Null /\ data.updatedAt > d.json.updatedAt
                                    THEN @ ELSE d.json]

\* The state fetchAll leaves once its three responses d, r, l are in: the three
\* json() calls, the status check, the setters, the catch clause.
afterResponses(d, r, l) ==
    LET st == [data |-> data, roadmap |-> roadmap, looks |-> looks, error |-> error]
        caught(e) == [st EXCEPT !.error =
                         JStr(ErrorMessage(e, <<"Failed", " ", "to", " ", "load", " ", "data">>))]
    IN  IF ~d.parsed \/ ~r.parsed \/ ~l.parsed THEN caught(ParseFailure)
        ELSE IF ~Ok(d)
        THEN caught([isError |-> TRUE,
                     message |-> ErrorOr(d.json, <<"Failed", " ", "to", " ", "fetch", " ", "dashboard">>)])
        ELSE [st EXCEPT !.roadmap = IF Ok(r) THEN r.json ELSE @,
                        !.looks   = IF Ok(l) THEN l.json ELSE @,
                        !.data    = d.json]

\* The continuation of fetchAll after Promise.all is fulfilled. What the
\* responses hold is read here (res.json(), res.ok), so it is drawn here.
ResponsesRead ==
    \E c \in DOMAIN cycles :
        /\ cycles[c].pc = "settled"
        /\ \E d \in DashboardReplies(c), r \in RoadmapReplies(c), l \in LooksReplies(c) :
              LET st == afterResponses(d, r, l)
              IN  /\ data' = st.data
                  /\ roadmap' = st.roadmap
                  /\ looks' = st.looks
                  /\ error' = st.error
                  /\ last' = [cycle |-> c, step |-> "read",
                              replies |-> [dashboard |-> d, roadmap |-> r, looks |-> l],
                              before |-> [data |-> data, roadmap |-> roadmap,
                                          looks |-> looks]]
        /\ loading' = FALSE
        /\ cycles' = [cycles EXCEPT ![c] = [pc |-> "done", pending |-> {}]]
        /\ UNCHANGED <<started, serverVars, call, syncVars>>

\* The memos meals, bodyComp and training: data?.[field] ?? []
memoOf(payload, field) ==
    IF IsNullish(payload) \/ field \notin DOMAIN payload \/ IsNullish(payload[field])
    THEN <<>>
    ELSE payload[field]

----------------------------------------------------------------------------
(* Views the frontend derives from the dashboard payload *)

\* x || 0 for a number
OrZero(n) == IF n # 0 THEN n ELSE 0

\* toLocaleDateString("en-US", {month: "short", day: "numeric"}) of noon of the
\* dates of CalendarDates.
DateLabels == << "Jan 1", "Feb 1", "Jun 1", "Dec 1", "Mar 1", "Sep 1", "Sep 2", "Sep 3",
                 "Sep 4", "Sep 5" >>

dateLabel(date) == << DateLabels[DateRank(date)] >>

\* A rollup that stores the last meal of a day instead of adding it.
RECURSIVE byDateOverwriting(_)
byDateOverwriting(meals) ==
    IF meals = <<>> THEN <<>>
    ELSE LET before == byDateOverwriting(SubSeq(meals, 1, Len(meals) - 1))
             m      == meals[Len(meals)]
             opened == IF \E j \in DOMAIN before : before[j].date = m.date
                       THEN before
                       ELSE before \o << [date |-> m.date, calories |-> 0, protein |-> 0,
                                          label |-> dateLabel(m.date)] >>
         IN  IF m.date = <<>> THEN before
             ELSE [j \in DOMAIN opened |->
                      IF opened[j].date = m.date
                      THEN [opened[j] EXCEPT !.calories = OrZero(m.calories),
                                             !.protein  = OrZero(m.protein)]
                      ELSE opened[j]]

\* The object byDate after meals.forEach, as Object.values lists it: one entry
\* per date, in the order the dates were first met (a date is no integer key).
RECURSIVE byDate(_)
byDate(meals) ==
    IF meals = <<>> THEN <<>>
    ELSE LET before == byDate(SubSeq(meals, 1, Len(meals) - 1))
             m      == meals[Len(meals)]
             opened == IF \E j \in DOMAIN before : before[j].date = m.date
                       THEN before
                       ELSE before \o << [date |-> m.date, calories |-> 0, protein |-> 0,
                                          label |-> dateLabel(m.date)] >>
         IN  IF m.date = <<>> THEN before
             ELSE [j \in DOMAIN opened |->
                      IF opened[j].date = m.date
                      THEN [opened[j] EXCEPT !.calories = @ + OrZero(m.calories),
                                             !.protein  = @ + OrZero(m.protein)]
                      ELSE opened[j]]

\* A rollup returned in the order of Object.values, without the sort.
dailyDataUnsorted(meals) == byDate(meals)

\* Object.values(byDate).sort((a, b) => a.date.localeCompare(b.date))
dailyData(meals) == SortByDate(byDate(meals))

\* Longest meal collection the rollup is applied to.
MaxMeals == 3

\* Meal entries of a dashboard payload: undated and dated, with no, whole and
\* fractional amounts.
MealEntries ==
    { [date |-> d, calories |-> n[1], protein |-> n[2]] :
          d \in { <<>>, <<"2026-06-01">>, <<"2026-01-01">> },
          n \in { <<0, 0>>, <<500 * Unit, 30 * Unit>>, <<2505000, 0>> } }

DailyDataInputs ==
    { [fn |-> "dailyData", meals |-> l] :
          l \in UNION { [1..n -> MealEntries] : n \in 0..MaxMeals } }

CallDailyData ==
    /\ call.fn = "dailyData"
    /\ ~Applied(call)
    /\ call' = WithOut(call, dailyData(call.meals))
    /\ UNCHANGED <<serverVars, appVars, syncVars>>

\* The object byEx after training.forEach, as Object.entries lists it: the
\* entries of each exercise in their original order, the exercises in the order
\* they were first met (an exercise name is no integer key).
RECURSIVE byEx(_)
byEx(training) ==
    IF training = <<>> THEN <<>>
    ELSE LET before == byEx(SubSeq(training, 1, Len(training) - 1))
             e      == training[Len(training)]
         IN  IF e.exercise = <<>> THEN before
             ELSE IF \E j \in DOMAIN before : before[j].name = e.exercise
             THEN [j \in DOMAIN before |->
                      IF before[j].name = e.exercise
                      THEN [before[j] EXCEPT !.entries = Append(@, e)]
                      ELSE before[j]]
             ELSE before \o << [name |-> e.exercise, entries |-> <<e>>] >>

\* A progression that takes the first and last entry as logged, without the
\* sort.
exercisesUnsorted(training) ==
    LET groups == byEx(training)
    IN  [j \in DOMAIN groups |->
            [name     |-> groups[j].name,
             latest   |-> groups[j].entries[Len(groups[j].entries)],
             first    |-> groups[j].entries[1],
             sessions |-> Len(groups[j].entries)]]

\* Object.entries(byEx).map(([name, entries]) => ...)
exercises(training) ==
    LET groups == byEx(training)
    IN  [j \in DOMAIN groups |->
            LET sorted == SortByDate(groups[j].entries)
            IN  [name     |-> groups[j].name,
                 latest   |-> sorted[Len(sorted)],
                 first    |-> sorted[1],
                 sessions |-> Len(sorted)]]

\* The row of the Exercise Progression panel: delta and the chip's colour.
progressionRow(ex) ==
    LET delta == ex.latest.weight - ex.first.weight
    IN  [name |-> ex.name, delta |-> delta,
         color |-> IF delta >= 0 THEN "success" ELSE "danger"]

\* The "Progressing" statistic of the Training tab.
progressingCount(exs) ==
    Cardinality({j \in DOMAIN exs : exs[j].latest.weight >= exs[j].first.weight})

\* Longest training collection the progression is computed of.
MaxTraining == 3

\* Training entries of a dashboard payload: one lift on two days and undated,
\* at two weights, another lift, and an entry without exercise name.
TrainingEntries ==
    { [exercise |-> <<"Bench">>, date |-> d, weight |-> w] :
          d \in { <<>>, <<"2026-01-01">>, <<"2026-02-01">> },
          w \in { 100 * Unit, 110 * Unit } }
    \cup { [exercise |-> <<"Squat">>, date |-> <<"2026-01-01">>, weight |-> 100 * Unit],
           [exercise |-> <<>>, date |-> <<"2026-02-01">>, weight |-> 110 * Unit] }

ExercisesInputs ==
    { [fn |-> "exercises", training |-> l] :
          l \in UNION { [1..n -> TrainingEntries] : n \in 0..MaxTraining } }

CallExercises ==
    /\ call.fn = "exercises"
    /\ ~Applied(call)
    /\ LET exs == exercises(call.training)
       IN  call' = WithOut(call, [exercises   |-> exs,
                                  rows        |-> [j \in DOMAIN exs |-> progressionRow(exs[j])],
                                  progressing |-> progressingCount(exs)])
    /\ UNCHANGED <<serverVars, appVars, syncVars>>

\* BulkProgress.  The clock counts half days of local time since the
\* midnight that begins 2026-01-01; a fraction is a numerator over a positive
\* denominator.

BULK_START_WEIGHT  == 161 * Unit
BULK_TARGET_WEIGHT == 170 * Unit

HalfDaysPerDay == 2

\* new Date(date + "T00:00:00").getTime() of the two bulk dates: 2026-01-07 is
\* 6 days, 2026-03-23 is 81 days after 2026-01-01.
bulkStart == 6 * HalfDaysPerDay
bulkEnd   == 81 * HalfDaysPerDay

\* Math.ceil(a / b) for b > 0
CeilDiv(a, b) == -((-a) \div b)

Max2(a, b) == IF a > b THEN a ELSE b
Min2(a, b) == IF a < b THEN a ELSE b

\* A pace rule with one margin, 0.10, on both sides.
paceOfOneMargin(pctNum, pctDen, daysPassed, totalDays) ==
    IF 10 * pctNum * totalDays > 10 * daysPassed * pctDen + pctDen * totalDays
    THEN "Ahead of schedule"
    ELSE IF 10 * pctNum * totalDays < 10 * daysPassed * pctDen - pctDen * totalDays
    THEN "Behind"
    ELSE "On track"

\* pct > timePct + 0.1, else pct < timePct - 0.15, else "On track", with
\* pct = pctNum / pctDen and timePct = daysPassed / totalDays, each comparison
\* multiplied out by the positive denominators.
paceOf(pctNum, pctDen, daysPassed, totalDays) ==
    IF 10 * pctNum * totalDays > 10 * daysPassed * pctDen + pctDen * totalDays
    THEN "Ahead of schedule"
    ELSE IF 100 * pctNum * totalDays < 100 * daysPassed * pctDen - 15 * pctDen * totalDays
    THEN "Behind"
    ELSE "On track"

BULK_END_DATE == <<"2026-03-23">>

\* A projection whose rate divides by daysPassed itself.
projectedDateOfUnguarded(samples, gained, currentWeight, daysPassed, now) ==
    IF samples >= 3 /\ gained > 0
    THEN LET remaining == BULK_TARGET_WEIGHT - currentWeight
         IN  [monthDay |->
                 ((now * gained + HalfDaysPerDay * remaining * daysPassed)
                      \div (HalfDaysPerDay * gained)) % 365]
    ELSE JStr(BULK_END_DATE)

\* projectedDate: now + daysNeeded days with daysNeeded = remaining /
\* (gained / Math.max(daysPassed, 1)); the instant now + daysNeeded * 86400000
\* is (now * gained + HalfDaysPerDay * remaining * Math.max(daysPassed, 1)) /
\* gained half days.  toLocaleDateString("en-US", {month: "short", day:
\* "numeric"}) keeps its month and day, here the day's number within its
\* (365-day) year; the year is not part of the label.
projectedDateOf(samples, gained, currentWeight, daysPassed, now) ==
    IF samples >= 3 /\ gained > 0
    THEN LET remaining == BULK_TARGET_WEIGHT - currentWeight
         IN  [monthDay |->
                 ((now * gained + HalfDaysPerDay * remaining * Max2(daysPassed, 1))
                      \div (HalfDaysPerDay * gained)) % 365]
    ELSE JStr(BULK_END_DATE)

bulkProgress(bodyComp, now) ==
    LET sorted        == SortByDate(bodyComp)
        currentWeight == IF sorted = <<>> THEN BULK_START_WEIGHT
                         ELSE sorted[Len(sorted)].weight
        totalGain     == BULK_TARGET_WEIGHT - BULK_START_WEIGHT
        gained        == currentWeight - BULK_START_WEIGHT
        pctNum        == Min2(Max2(gained, 0), totalGain)
        daysRemaining == Max2(0, CeilDiv(bulkEnd - now, HalfDaysPerDay))
        totalDays     == CeilDiv(bulkEnd - bulkStart, HalfDaysPerDay)
        daysPassed    == totalDays - daysRemaining
    IN  [currentWeight |-> currentWeight,
         pctNum        |-> pctNum,
         pctDen        |-> totalGain,
         daysRemaining |-> daysRemaining,
         totalDays     |-> totalDays,
         daysPassed    |-> daysPassed,
         pace          |-> paceOf(pctNum, totalGain, daysPassed, totalDays),
         projectedDate |-> projectedDateOf(Len(sorted), gained, currentWeight,
                                           daysPassed, now)]

\* The instants BulkProgress is rendered at: from two days before the bulk
\* starts to two days after it ends.
BulkInstants == (bulkStart - 2 * HalfDaysPerDay)..(bulkEnd + 2 * HalfDaysPerDay)

\* Body-composition collections: none, one sample at each of several weights,
\* and two and three samples listed latest first.
BulkBodyComp ==
    { <<>> }
    \cup { << [date |-> <<"2026-02-01">>, weight |-> w] >> :
              w \in { 0, 155 * Unit, 161 * Unit, 1637000, 165 * Unit, 1665000,
                      170 * Unit, 175 * Unit } }
    \cup { << [date |-> <<"2026-02-01">>, weight |-> w1],
              [date |-> <<"2026-01-01">>, weight |-> w2] >> :
              w1, w2 \in { 161 * Unit, 165 * Unit, 170 * Unit } }
    \cup { << [date |-> <<"2026-02-01">>, weight |-> w],
              [date |-> <<"2026-01-01">>, weight |-> 161 * Unit],
              [date |-> <<"2026-01-01">>, weight |-> 163 * Unit] >> :
              w \in { 155 * Unit, 161 * Unit, 165 * Unit, 170 * Unit, 175 * Unit } }

BulkProgressInputs ==
    { [fn |-> "bulkProgress", bodyComp |-> l, now |-> t] :
          l \in BulkBodyComp, t \in BulkInstants }

CallBulkProgress ==
    /\ call.fn = "bulkProgress"
    /\ ~Applied(call)
    /\ call' = WithOut(call, bulkProgress(call.bodyComp, call.now))
    /\ UNCHANGED <<serverVars, appVars, syncVars>>

\* WeeklyTrends

caloriesMin == 2700 * Unit
proteinMin  == 160 * Unit

\* new Date(date + "T12:00:00").getDay() of the dates of CalendarDates
\* (0 is Sunday, 6 is Saturday).
DaysOfWeek == << 4, 0, 1, 2, 1, 3, 4, 5, 6, 0 >>

getDay(date) == DaysOfWeek[DateRank(date)]

\* Array.prototype.slice(0, n) where slice(-n) is meant.
SliceFirst(s, n) == SubSeq(s, 1, IF Len(s) < n THEN Len(s) ELSE n)

\* Array.prototype.slice(-n)
SliceLast(s, n) == SubSeq(s, IF Len(s) < n THEN 1 ELSE Len(s) - n + 1, Len(s))

\* Math.round of the quotient a / b, for a >= 0 and b > 0
RoundDiv(a, b) == (2 * a + b) \div (2 * b)

RECURSIVE SumField(_, _)
SumField(s, f) == IF s = <<>> THEN 0 ELSE Head(s)[f] + SumField(Tail(s), f)

\* The class of a day's dot: green, yellow or red.  x >= min * 0.85 is
\* 100 * x >= 85 * min, taken in hundredths.
dotOf(d) ==
    LET hit   == d.calories >= caloriesMin /\ d.protein >= proteinMin
        close == /\ ~hit
                 /\ 100 * (d.calories \div 100) >= 85 * (caloriesMin \div 100)
                 /\ 100 * (d.protein \div 100) >= 85 * (proteinMin \div 100)
    IN  IF hit THEN "dot-green" ELSE IF close THEN "dot-yellow" ELSE "dot-red"

weeklyTrends(days) ==
    LET last7 == SliceLast(days, 7)
        n     == Len(last7)
        onTarget == Cardinality({i \in DOMAIN last7 :
                        last7[i].calories >= caloriesMin /\ last7[i].protein >= proteinMin})
        compliance == RoundDiv(onTarget * 100, n)
        weekend == {i \in DOMAIN last7 : getDay(last7[i].date) \in {0, 6}}
        weekday == DOMAIN last7 \ weekend
        proOf(S) == SumField([k \in 1..Cardinality(S) |->
                        last7[CHOOSE i \in S : Cardinality({j \in S : j < i}) = k - 1]],
                        "protein") \div 100
        dips == /\ weekend # {}
                /\ IF weekday = {} THEN FALSE
                   ELSE 20 * proOf(weekend) * Cardinality(weekday)
                            < 17 * proOf(weekday) * Cardinality(weekend)
    IN  IF n = 0 THEN Null
        ELSE [dots       |-> [i \in DOMAIN last7 |-> dotOf(last7[i])],
              avgCal     |-> RoundDiv(SumField(last7, "calories") \div 100, n * 100),
              avgPro     |-> RoundDiv(SumField(last7, "protein") \div 100, n * 100),
              compliance |-> compliance,
              pattern    |-> IF dips THEN "Protein tends to dip on weekends."
                             ELSE IF compliance >= 85 THEN "Consistent week!"
                             ELSE IF compliance >= 60 THEN "Decent consistency."
                             ELSE "Inconsistent"]

\* Longest run of daily rollups WeeklyTrends is applied to.
MaxDays == 8

\* What a day can hold, in amounts logged to two decimals: both targets met,
\* one just missed, both at 85% of the target, one just under 85%, nothing.
DayAmounts ==
    { <<2700 * Unit, 160 * Unit>>, <<26999900, 160 * Unit>>, <<2800 * Unit, 1599900>>,
      <<2295 * Unit, 136 * Unit>>, <<22949900, 160 * Unit>>, <<2700 * Unit, 1359900>>,
      <<0, 0>> }

\* For the long runs: a hit, a close and a miss.
FewDayAmounts ==
    { <<2700 * Unit, 160 * Unit>>, <<2295 * Unit, 136 * Unit>>, <<2700 * Unit, 1359900>> }

\* The rollup of n days, on the first n dates, holding the amounts a.
RollupOf(a) ==
    [i \in DOMAIN a |-> [date |-> <<CalendarDates[i]>>, calories |-> a[i][1],
                         protein |-> a[i][2], label |-> dateLabel(<<CalendarDates[i]>>)]]

WeeklyTrendsInputs ==
    { [fn |-> "weeklyTrends", dailyData |-> RollupOf(a)] :
          a \in UNION { [1..n -> DayAmounts] : n \in 0..2 }
                \cup UNION { [1..n -> FewDayAmounts] : n \in 3..MaxDays } }

CallWeeklyTrends ==
    /\ call.fn = "weeklyTrends"
    /\ ~Applied(call)
    /\ call' = WithOut(call, weeklyTrends(call.dailyData))
    /\ UNCHANGED <<serverVars, appVars, syncVars>>

----------------------------------------------------------------------------
(* The Withings sync job: the standalone script main *)

\* Bound on the number of runs of the job.
MaxRuns == 3

\* group.date is in epoch seconds; the model counts instants 0..3, where 0
\* is also what "group.date || 0" makes of a missing date.  Instants 1 and 2
\* fall on the same UTC day.
IsoDateOfInstant == <<<<"2026-06-01">>, <<"2026-06-01">>, <<"2026-06-02">>>>

\* new Date(seconds * 1000).toISOString().slice(0, 10)
toISODate(instant) ==
    IF instant = 0 THEN <<"1970-01-01">> ELSE IsoDateOfInstant[instant]

\* Number((kg * 2.2046226218).toFixed(1)), on tenths; for the weights of
\* MeasureGroups the truncated factor rounds to the same tenth.
toLbs(kg) == (kg * 22046 + 5000) \div 10000

\* A measurement group, reduced to its date and the value of its weight
\* measure as getMeasureValue returns it: Null, or a number counted in
\* tenths of a kilogram.
MeasureGroups ==
    { [date |-> 0, weightKg |-> Null],
      [date |-> 1, weightKg |-> JNum(750)],
      [date |-> 2, weightKg |-> JNum(770)],
      [date |-> 3, weightKg |-> JNum(0)] }

\* json.body?.measuregrps || []
GroupLists ==
    {<<>>} \cup {<<g>> : g \in MeasureGroups}
           \cup {<<g, h>> : g \in MeasureGroups, h \in MeasureGroups}

\* groups.sort((a, b) => (b.date || 0) - (a.date || 0)); return groups[0]
\* The sort is stable: the first group of the greatest date.
latestOf(groups) ==
    LET top == CHOOSE i \in DOMAIN groups :
                   /\ \A j \in DOMAIN groups : groups[j].date <= groups[i].date
                   /\ \A j \in 1..(i - 1) : groups[j].date < groups[i].date
    IN  groups[top]

mapGroupToBodyComp(group) ==
    [date   |-> toISODate(group.date),
     weight |-> IF group.weightKg = Null \/ group.weightKg = JNum(0)
                THEN Null ELSE JNum(toLbs(group.weightKg.v))]

\* What refreshWithingsToken writes to tokenStatePath.
writeTokenStateSkipped(file, body) == file

writeTokenState(file, body) ==
    [access_token |-> body.access_token, refresh_token |-> body.refresh_token]

\* The rotated credentials the vendor issues to run r.
RotatedToken(r) == [access_token |-> r, refresh_token |-> r]

\* The pages the query of upsertNotionBodyComp matches: filter
\* { property: "Date", date: { equals: entry.date } }.
existingOfUnfiltered(db, date) == {}

existingOf(db, date) == {i \in DOMAIN db : db[i].date = date}

\* notion.pages.update: a property sent as undefined is left as it was.
updatedPage(page, entry, r) ==
    [page EXCEPT !.weight = IF entry.weight = Null THEN @ ELSE entry.weight,
                 !.date = entry.date,
                 !.syncedBy = r]

\* notion.pages.create
createdPage(entry, r) ==
    [date |-> entry.date, weight |-> entry.weight, createdBy |-> r, syncedBy |-> r]

\* A page somebody entered by hand.
ManualPage(date) ==
    [date |-> date, weight |-> JNum(1650), createdBy |-> 0, syncedBy |-> 0]

\* The workspace database before the first run.
InitialPages ==
    { <<>>,
      <<ManualPage(<<"2026-06-01">>)>>,
      <<ManualPage(<<"2026-06-02">>), ManualPage(<<"2026-06-01">>)>>,
      <<ManualPage(<<"2026-06-01">>), ManualPage(<<"2026-06-01">>)>> }

NoJob == [pc |-> "idle", run |-> 0, trail |-> <<>>, before |-> <<>>,
          token |-> Null, entry |-> Null, existing |-> {}, mode |-> "none"]

Finished == {"idle", "exited", "failed", "none", "done"}

\* A run of the script: the REQUIRED check, then main() up to its first await.
StartSync ==
    /\ job.pc \in Finished
    /\ runs < MaxRuns
    /\ runs' = runs + 1
    /\ \E missing \in BOOLEAN :
          job' = [NoJob EXCEPT !.pc = IF missing THEN "exited" ELSE "refresh",
                               !.run = runs + 1,
                               !.before = pages]
    /\ UNCHANGED <<tokenState, pages, serverVars, appVars, call>>

\* refreshWithingsToken: the request, the status check, the write of the file.
RefreshWithingsToken ==
    /\ job.pc = "refresh"
    /\ \E outcome \in {"rejected", "status", "unwritable", "ok"} :
          IF outcome = "ok"
          THEN /\ tokenState' = writeTokenState(tokenState, RotatedToken(job.run))
               /\ job' = [job EXCEPT !.pc = "fetch",
                                     !.trail = @ \o <<"refresh", "persist">>,
                                     !.token = RotatedToken(job.run)]
          ELSE /\ tokenState' = tokenState
               /\ job' = [job EXCEPT !.pc = "failed",
                                     !.trail = @ \o <<"refresh">>]
    /\ UNCHANGED <<pages, runs, serverVars, appVars, call>>

\* fetchLatestWithingsMeasure, then main() up to the query of the upsert.
FetchLatestWithingsMeasure ==
    /\ job.pc = "fetch"
    /\ \/ job' = [job EXCEPT !.pc = "failed", !.trail = @ \o <<"fetch">>]
       \/ \E groups \in GroupLists :
             IF groups = <<>>
             THEN job' = [job EXCEPT !.pc = "none", !.trail = @ \o <<"fetch">>]
             ELSE job' = [job EXCEPT !.pc = "query",
                                     !.trail = @ \o <<"fetch", "upsert">>,
                                     !.entry = mapGroupToBodyComp(latestOf(groups))]
    /\ UNCHANGED <<tokenState, pages, runs, serverVars, appVars, call>>

\* upsertNotionBodyComp: the query returns, with page_size 1.
UpsertQuery ==
    /\ job.pc = "query"
    /\ \/ job' = [job EXCEPT !.pc = "failed"]
       \/ LET found == existingOf(pages, job.entry.date)
          IN  IF found = {}
              THEN job' = [job EXCEPT !.pc = "write", !.existing = {}]
              ELSE \E i \in found :
                      job' = [job EXCEPT !.pc = "write", !.existing = {i}]
    /\ UNCHANGED <<tokenState, pages, runs, serverVars, appVars, call>>

\* upsertNotionBodyComp: notion.pages.update or notion.pages.create returns.
UpsertWrite ==
    /\ job.pc = "write"
    /\ \/ /\ job' = [job EXCEPT !.pc = "failed"]
          /\ pages' = pages
       \/ IF job.existing # {}
          THEN /\ pages' = [i \in DOMAIN pages |->
                               IF i \in job.existing
                               THEN updatedPage(pages[i], job.entry, job.run)
                               ELSE pages[i]]
               /\ job' = [job EXCEPT !.pc = "done", !.mode = "update"]
          ELSE /\ pages' = Append(pages, createdPage(job.entry, job.run))
               /\ job' = [job EXCEPT !.pc = "done", !.mode = "create"]
    /\ UNCHANGED <<tokenState, runs, serverVars, appVars, call>>

----------------------------------------------------------------------------
(* Specifications *)

NoRefresh == [cycle |-> 0, step |-> "none"]

InitApp ==
    /\ data = Null
    /\ roadmap = Null
    /\ looks = Null
    /\ loading = FALSE
    /\ error = Null
    /\ cycles = [c \in 1..MaxRefreshes |-> NotStarted]
    /\ started = 0
    /\ last = NoRefresh

InitServer ==
    /\ notionToken \in EnvTokens
    /\ envMeals \in EnvIds
    /\ envBodyComp \in EnvIds
    /\ envTraining \in EnvIds
    /\ req = NoRequest
    /\ res = NoResponse
    /\ upstream = NoQuery

\* The configuration of a deployment with every variable set.
InitConfigured ==
    /\ notionToken = JStr(<<"secret">>)
    /\ envMeals = JStr(<<"A", "-", "9">>)
    /\ envBodyComp = JStr(<<"A", "-", "9">>)
    /\ envTraining = JStr(<<"A", "-", "9">>)
    /\ req = NoRequest
    /\ res = NoResponse
    /\ upstream = NoQuery

\* The sync job has not run.
InitIdle ==
    /\ job = NoJob
    /\ tokenState = Null
    /\ pages = <<>>
    /\ runs = 0

Init == InitServer /\ InitApp /\ InitIdle /\ call = NoCall

Next == Request \/ GetDashboard \/ GetLooksmaxx \/ GetRoadmap

\* The backend: any configuration, any sequence of requests.
Spec == Init /\ [][Next]_vars

InitMap ==
    /\ InitConfigured
    /\ InitApp
    /\ InitIdle
    /\ call \in FirstExistingInputs \cup ExtractorInputs \cup BodyCompInputs
                \cup MealInputs \cup TrainingInputs \cup RoadmapInputs
                \cup DailyDataInputs \cup ExercisesInputs \cup BulkProgressInputs
                \cup WeeklyTrendsInputs

NextMap ==
    \/ CallFirstExisting
    \/ CallExtractor
    \/ CallBodyCompMapper
    \/ CallMealMapper
    \/ CallTrainingMapper
    \/ CallRoadmap
    \/ CallDailyData
    \/ CallExercises
    \/ CallBulkProgress
    \/ CallWeeklyTrends

\* The extractors and mappers applied to bounded inputs.
SpecMap == InitMap /\ [][NextMap]_vars

NextApp == StartRefresh \/ FetchFulfilled \/ FetchRejected \/ ResponsesRead

\* The frontend: the initial load and Refresh clicks, possibly overlapping.
InitFrontend == InitConfigured /\ InitApp /\ InitIdle /\ call = NoCall

SpecApp == InitFrontend /\ [][NextApp]_vars

NextSync ==
    \/ StartSync
    \/ RefreshWithingsToken
    \/ FetchLatestWithingsMeasure
    \/ UpsertQuery
    \/ UpsertWrite

InitSync ==
    /\ InitConfigured
    /\ InitApp
    /\ call = NoCall
    /\ job = NoJob
    /\ tokenState \in {Null, RotatedToken(0)}
    /\ pages \in InitialPages
    /\ runs = 0

\* The sync job: any number of runs, one after the other.
SpecSync == InitSync /\ [][NextSync]_vars

----------------------------------------------------------------------------
(* Properties of the backend, under Spec *)

Answered(route) == "route" \in DOMAIN res /\ res.route = route

EmptyCollections(body) ==
    body.meals = <<>> /\ body.bodyComp = <<>> /\ body.training = <<>>

\* An environment value that normalizes to the empty identifier: unset, empty,
\* or with no character of [a-f0-9-] once lower-cased.
NoIdentifier(v) ==
    \/ ~Truthy(v)
    \/ \A i \in DOMAIN v.v : ToLowerChar(v.v[i]) \notin IdChars

ConfigurationAbsent ==
    \/ notionToken = Undefined
    \/ notionToken = JStr(<<>>)
    \/ NoIdentifier(envMeals)
    \/ NoIdentifier(envBodyComp)
    \/ NoIdentifier(envTraining)

\* C1: when GET /api/dashboard is handled and the auth token or any of the
\* three normalized data-source identifiers is absent or empty, the response is
\* HTTP 400 with meals, bodyComp and training all empty, an updatedAt timestamp
\* and a non-empty error string.
C1_MissingConfigIs400 ==
    (Answered("/api/dashboard") /\ ConfigurationAbsent) =>
        /\ res.status = 400
        /\ EmptyCollections(res.body)
        /\ "updatedAt" \in DOMAIN res.body
        /\ res.body.updatedAt \in Times
        /\ "error" \in DOMAIN res.body
        /\ res.body.error # <<>>

\* A 400 answered with the token set and one identifier that normalizes to
\* nothing.
C1_Witness ==
    /\ Answered("/api/dashboard")
    /\ notionToken = JStr(<<"secret">>)
    /\ envMeals = JStr(<<" ", "Z">>)
    /\ envBodyComp = JStr(<<"A", "-", "9">>)
    /\ envTraining = JStr(<<"A", "-", "9">>)
    /\ res.status = 400

QueryFailed == upstream.queried /\ \E i \in DOMAIN upstream.queries : ~upstream.queries[i].ok

AllQueriesOk == upstream.queried /\ \A i \in DOMAIN upstream.queries : upstream.queries[i].ok

SameMapping(out, F(_), results) ==
    /\ Len(out) = Len(results)
    /\ \A i \in DOMAIN results : out[i] = F(results[i])

\* C2: with complete configuration, GET /api/dashboard answers 500 with the
\* three collections empty and an error string if any one of the three upstream
\* queries fails (nothing of the queries that succeeded is returned), and 200
\* with the three mapped collections and no error field if all three succeed;
\* no other status is produced.
C2_DashboardStatus ==
    (Answered("/api/dashboard") /\ ~ConfigurationAbsent) =>
        /\ upstream.queried
        /\ res.status \in {200, 500}
        /\ QueryFailed =>
              /\ res.status = 500
              /\ EmptyCollections(res.body)
              /\ "error" \in DOMAIN res.body
        /\ AllQueriesOk =>
              /\ res.status = 200
              /\ "error" \notin DOMAIN res.body
              /\ SameMapping(res.body.meals, mealMapper, upstream.queries[1].value.results)
              /\ SameMapping(res.body.bodyComp, bodyCompMapper,
                             upstream.queries[2].value.results)
              /\ SameMapping(res.body.training, trainingMapper,
                             upstream.queries[3].value.results)

\* A 500 answered although two of the three queries returned records.
C2_Witness ==
    /\ Answered("/api/dashboard")
    /\ upstream.queried
    /\ ~upstream.queries[2].ok
    /\ upstream.queries[1].ok /\ upstream.queries[1].value.results # <<>>
    /\ upstream.queries[3].ok /\ upstream.queries[3].value.results # <<>>
    /\ res.status = 500

\* The zeroed payload of a route, whatever its timestamp.
IsFallback(route, body) ==
    IF route = "/api/looksmaxx"
    THEN /\ body.dailyCount = 0 /\ body.fitnessCount = 0
         /\ body.productsCount = 0 /\ body.goalsCount = 0
         /\ body.latestDaily = <<>> /\ body.latestGoals = <<>>
    ELSE body.items = <<>> /\ body.byPhase = <<>> /\ body.nextMilestones = <<>>

\* C3: GET /api/looksmaxx and GET /api/roadmap always answer 200, and on any
\* failure (a missing auth token as well as a failed upstream query) the body is
\* the zeroed fallback together with an error string field.
C3_FallbackCarriesError ==
    (Answered("/api/looksmaxx") \/ Answered("/api/roadmap")) =>
        /\ res.status = 200
        /\ (~Truthy(notionToken) \/ QueryFailed) =>
              /\ IsFallback(res.route, res.body)
              /\ "error" \in DOMAIN res.body

----------------------------------------------------------------------------
(* Properties of the extractors and mappers, under SpecMap *)

Present(props, keys) == {i \in DOMAIN keys : keys[i] \in DOMAIN props}

Least(S) == CHOOSE i \in S : \A j \in S : i <= j

\* A property whose value is empty or zero.
EmptyValue(v) == v = Null \/ v = [number |-> JNum(0)] \/ v = [title |-> JArr(<<>>)]

\* C8: firstExisting(props, keys) returns the value of the first key of the
\* list that exists in the property map, even when that value is empty or zero
\* and a later key holds a non-empty value; it returns undefined only when no
\* listed key exists.
C8_FirstExistingKey ==
    (call.fn = "firstExisting" /\ Applied(call)) =>
        LET present == Present(call.props, call.keys)
        IN  /\ present # {} => call.out = call.props[call.keys[Least(present)]]
            /\ call.out = Undefined <=> present = {}

\* The first listed key exists with an empty or zero value, a later one with a
\* non-empty value, and the first one's value is returned.
C8_Witness ==
    /\ call.fn = "firstExisting"
    /\ Applied(call)
    /\ Len(call.keys) = 2
    /\ call.keys[1] \in DOMAIN call.props
    /\ call.keys[2] \in DOMAIN call.props
    /\ EmptyValue(call.props[call.keys[1]])
    /\ ~EmptyValue(call.props[call.keys[2]])
    /\ call.out = call.props[call.keys[1]]

DocumentedDefault(kind) == IF kind = "number" THEN JNum(0) ELSE JStr(<<>>)

\* C9: for every property map that contains none of the candidate keys, each
\* typed extractor applied to the lookup result returns its documented default
\* (the empty string for title, rich text, date and select; 0 for number).
C9_DefaultsWhenNoKey ==
    (call.fn = "extract" /\ Applied(call) /\ Present(call.props, call.keys) = {}) =>
        call.out = DocumentedDefault(call.kind)

\* A date looked up under two keys in a map that holds only a third.
C9_Witness ==
    /\ call.fn = "extract"
    /\ Applied(call)
    /\ call.kind = "date"
    /\ Len(call.keys) = 2
    /\ DOMAIN call.props # {}
    /\ Present(call.props, call.keys) = {}
    /\ call.out = JStr(<<>>)

\* The raw body-fat number of a record, read off the record itself.
RawBodyFat(r) ==
    LET p == IF "properties" \in DOMAIN r /\ r.properties # Null
             THEN r.properties ELSE EmptyObject
        v == IF "Body Fat" \in DOMAIN p THEN p["Body Fat"]
             ELSE IF "Body Fat %" \in DOMAIN p THEN p["Body Fat %"]
             ELSE Null
    IN  IF v # Null /\ v.number # Null THEN v.number.v ELSE 0

Abs(x) == IF x < 0 THEN -x ELSE x

\* y is x rounded to one decimal: a multiple of a tenth, none nearer to x.
RoundedTo1Decimal(y, x) ==
    /\ y % (Unit \div 10) = 0
    /\ 2 * Abs(y - x) <= Unit \div 10

\* C10: in the body-composition mapper a raw body-fat value r is rescaled to
\* round(r * 100, 1 decimal) exactly when 0 < r <= 1 (r = 1 becomes 100), and a
\* value r <= 0 is returned unchanged (0 stays 0).
C10_BodyFatRescaled ==
    (call.fn = "bodyComp" /\ Applied(call)) =>
        LET r == RawBodyFat(call.r)
            out == call.out.bodyFat
        IN  /\ (r > 0 /\ r <= Unit) => RoundedTo1Decimal(out, r * 100)
            /\ r > Unit => ~RoundedTo1Decimal(out, r * 100)
            /\ r = Unit => out = 100 * Unit
            /\ r <= 0 => out = r

\* The reading 1 mapped to 100.
C10_Witness ==
    /\ call.fn = "bodyComp"
    /\ Applied(call)
    /\ RawBodyFat(call.r) = Unit
    /\ call.out.bodyFat = 100 * Unit

\* C11: in the body-composition mapper, for every raw body-fat value r > 1 the
\* output bodyFat equals r rounded to 1 decimal place.
C11_AboveOneRounded ==
    (call.fn = "bodyComp" /\ Applied(call) /\ RawBodyFat(call.r) > Unit) =>
        RoundedTo1Decimal(call.out.bodyFat, RawBodyFat(call.r))

\* The number a record logs under the first of the keys it holds: 0 when it
\* holds none of them, or holds there something that is no number.
LoggedNumber(r, keys) ==
    LET p == IF "properties" \in DOMAIN r /\ r.properties # Null
             THEN r.properties ELSE EmptyObject
        present == Present(p, keys)
        v == IF present = {} THEN Null ELSE p[keys[Least(present)]]
    IN  IF v # Null /\ "number" \in DOMAIN v /\ v.number # Null THEN v.number.v ELSE 0

\* n, or null when n is 0.
NullWhenZero(n) == IF n = 0 THEN Null ELSE JNum(n)

\* C12: in the meal mapper, calories and protein equal the extracted number
\* with 0 kept as 0, while carbs and fat are null exactly when the extracted
\* number is 0 (field absent, non-numeric, or a logged 0) and the extracted
\* number otherwise.
C12_MealNumbers ==
    (call.fn = "meal" /\ Applied(call)) =>
        /\ call.out.calories = LoggedNumber(call.r, <<"Calories", "kcal">>)
        /\ call.out.protein = LoggedNumber(call.r, <<"Protein", "Protein (g)">>)
        /\ call.out.carbs = NullWhenZero(LoggedNumber(call.r, <<"Carbs", "Carbs (g)">>))
        /\ call.out.fat = NullWhenZero(LoggedNumber(call.r, <<"Fat", "Fat (g)">>))

\* A record with Calories present and valued 0, kcal holding a count, and no
\* Carbs field: calories is 0 and carbs is null.
C12_Witness ==
    /\ call.fn = "meal"
    /\ Applied(call)
    /\ "properties" \in DOMAIN call.r
    /\ call.r.properties # Null
    /\ DOMAIN call.r.properties = {"Calories", "kcal", "Fat (g)"}
    /\ call.r.properties["Calories"] = [number |-> JNum(0)]
    /\ call.r.properties["kcal"] = [number |-> JNum(250 * Unit)]
    /\ call.r.properties["Fat (g)"] = [number |-> JNum(250 * Unit)]
    /\ call.out.calories = 0
    /\ call.out.carbs = Null
    /\ call.out.fat = JNum(250 * Unit)

\* The property map of a record, read off the record itself.
HeldProperties(r) ==
    IF "properties" \in DOMAIN r /\ r.properties # Null THEN r.properties ELSE EmptyObject

\* The text a reps property carries, and the number it carries.
RepsTextOf(v) ==
    IF v = [rich_text |-> JArr(<<[plain_text |-> JStr(<<"8-10">>)]>>)]
    THEN <<"8-10">> ELSE <<>>

RepsNumberOf(v) == IF v = [number |-> JNum(8 * Unit)] THEN 8 * Unit ELSE 0

\* The value a record holds under the first of the keys it holds, else null.
FirstHeld(r, keys) ==
    LET p == HeldProperties(r)
        present == Present(p, keys)
    IN  IF present = {} THEN Null ELSE p[keys[Least(present)]]

\* C13 as stated: in the training mapper, reps is the textual reps value
\* whenever any reps field of the record carries non-empty text, otherwise the
\* numeric reps value whenever a reps field carries a non-zero number, and the
\* literal "Unknown" only when no reps field carries text or a number.
C13_AnyRepsField ==
    (call.fn = "training" /\ Applied(call)) =>
        LET p == HeldProperties(call.r)
            texts == {k \in DOMAIN p : RepsTextOf(p[k]) # <<>>}
            nums  == {k \in DOMAIN p : RepsNumberOf(p[k]) # 0}
        IN  /\ texts # {} => \E k \in texts : call.out.reps = JStr(RepsTextOf(p[k]))
            /\ (texts = {} /\ nums # {}) =>
                  \E k \in nums : call.out.reps = JNum(RepsNumberOf(p[k]))
            /\ call.out.reps = JStr(<<"Unknown">>) => (texts = {} /\ nums = {})

\* C13 as amended: reps is the text held under the first present key among
\* Actual Reps, Target Reps, Reps when that text is non-empty; otherwise the
\* number held under the first present key among Actual Reps, Reps when it is
\* non-zero; otherwise the literal "Unknown".
C13_RepsOfFirstPresentKeys ==
    (call.fn = "training" /\ Applied(call)) =>
        LET text == RepsTextOf(FirstHeld(call.r, <<"Actual Reps", "Target Reps", "Reps">>))
            num  == RepsNumberOf(FirstHeld(call.r, <<"Actual Reps", "Reps">>))
        IN  call.out.reps = IF text # <<>> THEN JStr(text)
                            ELSE IF num # 0 THEN JNum(num)
                            ELSE JStr(<<"Unknown">>)

\* Actual Reps holds a count and Target Reps a range: reps is the count.
C13_Witness ==
    /\ call.fn = "training"
    /\ Applied(call)
    /\ "properties" \in DOMAIN call.r
    /\ call.r.properties # Null
    /\ DOMAIN call.r.properties = {"Actual Reps", "Target Reps"}
    /\ RepsNumberOf(call.r.properties["Actual Reps"]) = 8 * Unit
    /\ RepsTextOf(call.r.properties["Target Reps"]) = <<"8-10">>
    /\ call.out.reps = JNum(8 * Unit)

\* How many elements of the sequence s equal x.
Count(s, x) == Cardinality({i \in DOMAIN s : s[i] = x})

Elements(s) == {s[i] : i \in DOMAIN s}

\* s and t hold the same elements the same number of times.
IsPermutation(s, t) ==
    /\ Len(s) = Len(t)
    /\ \A x \in Elements(s) \cup Elements(t) : Count(s, x) = Count(t, x)

\* C14: for every upstream result set, the items list returned by /api/roadmap
\* is sorted ascending by date string, with all items whose date is empty
\* placed before every dated item, and it is a permutation of the mapped input
\* records.
C14_ItemsSortedPermutation ==
    (call.fn = "roadmap" /\ Applied(call)) =>
        LET items == call.out.items
        IN  /\ \A i, j \in DOMAIN items :
                  i < j => /\ DateRank(items[i].date) <= DateRank(items[j].date)
                           /\ items[j].date = <<>> => items[i].date = <<>>
            /\ IsPermutation(items, [i \in DOMAIN call.rows |-> roadmapItem(call.rows[i])])

\* Rows arriving latest first, with a bare row last, come back in date order
\* with the bare one in front.
C14_Witness ==
    /\ call.fn = "roadmap"
    /\ Applied(call)
    /\ Len(call.rows) = 4
    /\ [i \in 1..4 |-> call.rows[i].id] = <<"r1", "r4", "r2", "r3">>
    /\ [i \in 1..4 |-> call.out.items[i].date] =
           << <<>>, <<"2026-01-01">>, <<"2026-06-01">>, <<"2026-12-01">> >>

\* The index in s of the k-th element of s whose index is in S.
KthOf(S, k) == CHOOSE i \in S : Cardinality({j \in S : j < i}) = k - 1

\* C15: nextMilestones returned by /api/roadmap consists of exactly the first 8
\* (or fewer, if fewer exist) items, in sorted order, whose date is empty or is
\* >= today's ISO date; no item with a non-empty date earlier than today ever
\* appears.
C15_NextMilestones ==
    (call.fn = "roadmap" /\ Applied(call)) =>
        LET items == call.out.items
            next  == call.out.nextMilestones
            today == IsoDates[call.now]
            due   == {i \in DOMAIN items :
                         items[i].date = <<>>
                         \/ DateRank(items[i].date) >= DateRank(<<today>>)}
        IN  /\ Len(next) = IF Cardinality(due) < 8 THEN Cardinality(due) ELSE 8
            /\ \A k \in DOMAIN next :
                  LET i == items[KthOf(due, k)]
                  IN  next[k] = [milestone |-> i.milestone, date |-> i.date,
                                 phase |-> i.phase]
            /\ \A k \in DOMAIN next :
                  next[k].date = <<>> \/ DateRank(next[k].date) >= DateRank(<<today>>)

\* On 2026-06-01, of a row dated 2026-01-01, a bare row and eight rows dated
\* 2026-06-01 and one dated 2026-12-01, the slice holds the bare one and seven
\* of the eight, and neither the one dated back nor the ninth one due.
C15_Witness ==
    /\ call.fn = "roadmap"
    /\ Applied(call)
    /\ IsoDates[call.now] = "2026-06-01"
    /\ Len(call.rows) = 11
    /\ \E i \in DOMAIN call.out.items : call.out.items[i].date = <<"2026-01-01">>
    /\ \E i \in DOMAIN call.out.items : call.out.items[i].date = <<"2026-12-01">>
    /\ Len(call.out.nextMilestones) = 8
    /\ call.out.nextMilestones[1].date = <<>>
    /\ \A k \in 2..8 : call.out.nextMilestones[k].date = <<"2026-06-01">>

\* The phase name an item is counted under.
PhaseName(i) == IF i.phase = <<>> THEN <<"Unassigned">> ELSE i.phase

\* The index of the first item counted under the phase name n.
FirstOfPhase(items, n) ==
    CHOOSE i \in DOMAIN items :
        /\ PhaseName(items[i]) = n
        /\ \A j \in DOMAIN items : PhaseName(items[j]) = n => i <= j

RECURSIVE SumValues(_)
SumValues(entries) ==
    IF entries = <<>> THEN 0 ELSE Head(entries).value + SumValues(Tail(entries))

\* C16: byPhase returned by /api/roadmap has exactly one entry per distinct
\* phase name among the items (empty phase replaced by "Unassigned"), each
\* entry's value is the number of items in that phase, entries appear in order
\* of first occurrence in the sorted items, and the values sum to the number of
\* items.
C16_ByPhaseHistogram ==
    (call.fn = "roadmap" /\ Applied(call)) =>
        LET items   == call.out.items
            byPhase == call.out.byPhase
        IN  /\ \A j, k \in DOMAIN byPhase : byPhase[j].name = byPhase[k].name => j = k
            /\ {byPhase[j].name : j \in DOMAIN byPhase}
                   = {PhaseName(items[i]) : i \in DOMAIN items}
            /\ \A j \in DOMAIN byPhase :
                  byPhase[j].value =
                      Cardinality({i \in DOMAIN items : PhaseName(items[i]) = byPhase[j].name})
            /\ \A j, k \in DOMAIN byPhase :
                  j < k => FirstOfPhase(items, byPhase[j].name)
                               < FirstOfPhase(items, byPhase[k].name)
            /\ SumValues(byPhase) = Len(items)

\* Four rows whose date order is bare, no phase, P2, P1: the histogram counts
\* two under Unassigned, then P2, then P1.
C16_Witness ==
    /\ call.fn = "roadmap"
    /\ Applied(call)
    /\ Len(call.rows) = 4
    /\ call.out.byPhase = << [name |-> <<"Unassigned">>, value |-> 2],
                             [name |-> <<"P2">>, value |-> 1],
                             [name |-> <<"P1">>, value |-> 1] >>

----------------------------------------------------------------------------
(* Properties of the derived views, under SpecMap *)

\* The sum of f[i] over the indices i of the set S.
RECURSIVE SumOver(_, _)
SumOver(f, S) ==
    IF S = {} THEN 0
    ELSE LET i == CHOOSE j \in S : TRUE
         IN  f[i] + SumOver(f, S \ {i})

\* The meals of a collection logged on the date d.
MealsOn(meals, d) == {i \in DOMAIN meals : meals[i].date = d}

C18_RollupAscendingDistinct ==
    (call.fn = "dailyData" /\ Applied(call)) =>
        LET meals == call.meals
            days  == call.out
        IN  /\ \A j, k \in DOMAIN days :
                  j < k => DateRank(days[j].date) < DateRank(days[k].date)
            /\ {days[j].date : j \in DOMAIN days}
                   = {meals[i].date : i \in DOMAIN meals} \ {<<>>}
            /\ Len(days) = Cardinality({meals[i].date : i \in DOMAIN meals} \ {<<>>})

\* Meals of a later day, of no day and of an earlier day, in that order: the
\* rollup lists the earlier day, then the later one.
C18_Witness ==
    /\ call.fn = "dailyData"
    /\ Applied(call)
    /\ [i \in DOMAIN call.meals |-> call.meals[i].date]
           = << <<"2026-06-01">>, <<>>, <<"2026-01-01">> >>
    /\ [j \in DOMAIN call.out |-> call.out[j].date]
           = << <<"2026-01-01">>, <<"2026-06-01">> >>

\* The entries of a training collection logged for the exercise name.
EntriesOf(training, name) == {i \in DOMAIN training : training[i].exercise = name}

\* Among the entries S: the one of smallest date, the earliest logged of
\* several; and the one of largest date, the latest logged of several.
EarliestOf(training, S) ==
    CHOOSE i \in S : \A j \in S :
        \/ DateRank(training[i].date) < DateRank(training[j].date)
        \/ DateRank(training[i].date) = DateRank(training[j].date) /\ i <= j

LatestOf(training, S) ==
    CHOOSE i \in S : \A j \in S :
        \/ DateRank(training[j].date) < DateRank(training[i].date)
        \/ DateRank(training[j].date) = DateRank(training[i].date) /\ j <= i

\* C19: for every training collection and every distinct exercise name, the
\* progression entry has first = the entry with the smallest date string and
\* latest = the entry with the largest date string of that exercise (ties
\* resolved by original relative order), sessions = the number of entries of
\* that exercise, delta = latest.weight - first.weight, and the exercise counts
\* as progressing exactly when delta >= 0.
C19_ExerciseProgression ==
    (call.fn = "exercises" /\ Applied(call)) =>
        LET training == call.training
            exs      == call.out.exercises
            rows     == call.out.rows
            names    == {training[i].exercise : i \in DOMAIN training} \ {<<>>}
        IN  /\ {exs[j].name : j \in DOMAIN exs} = names
            /\ Len(exs) = Cardinality(names)
            /\ \A j \in DOMAIN exs :
                  LET S == EntriesOf(training, exs[j].name)
                      first  == training[EarliestOf(training, S)]
                      latest == training[LatestOf(training, S)]
                  IN  /\ exs[j].first = first
                      /\ exs[j].latest = latest
                      /\ exs[j].sessions = Cardinality(S)
                      /\ rows[j].name = exs[j].name
                      /\ rows[j].delta = latest.weight - first.weight
                      /\ rows[j].color = "success" <=> rows[j].delta >= 0
            /\ call.out.progressing = Cardinality({j \in DOMAIN rows : rows[j].delta >= 0})

\* Bench logged at 110 on 2026-02-01 and then at 100 on 2026-01-01: first is
\* the January entry, latest the February one, delta 10, progressing.
C19_Witness ==
    /\ call.fn = "exercises"
    /\ Applied(call)
    /\ call.training =
           << [exercise |-> <<"Bench">>, date |-> <<"2026-02-01">>, weight |-> 110 * Unit],
              [exercise |-> <<"Bench">>, date |-> <<"2026-01-01">>, weight |-> 100 * Unit] >>
    /\ call.out.rows = << [name |-> <<"Bench">>, delta |-> 10 * Unit, color |-> "success"] >>
    /\ call.out.exercises[1].sessions = 2
    /\ call.out.progressing = 1

\* The weight of the sample of largest date, the last listed of several.
LatestWeight(bodyComp) ==
    IF bodyComp = <<>> THEN 161 * Unit
    ELSE bodyComp[LatestOf(bodyComp, DOMAIN bodyComp)].weight

\* C20: in BulkProgress, with completion fraction = (current - 161) /
\* (170 - 161) clamped to [0,1] and elapsed fraction = daysPassed / totalDays,
\* pace is "ahead" exactly when completion exceeds elapsed by more than 0.10,
\* "behind" exactly when completion trails elapsed by more than 0.15, and
\* "on track" otherwise; exactly one label applies, and current weight 165 at
\* 30 of 75 days is "on track".
\* Fractions are compared in units of 1 / (100 * 9 * Unit * totalDays).
C20_PaceClassification ==
    (call.fn = "bulkProgress" /\ Applied(call)) =>
        LET out      == call.out
            current  == LatestWeight(call.bodyComp)
            raw      == current - 161 * Unit
            clamped  == IF raw < 0 THEN 0 ELSE IF raw > 9 * Unit THEN 9 * Unit ELSE raw
            scale    == 100 * 9 * Unit * out.totalDays
            complete == 100 * out.totalDays * clamped
            elapsed  == 100 * 9 * Unit * out.daysPassed
            ahead    == complete - elapsed > 10 * (scale \div 100)
            behind   == elapsed - complete > 15 * (scale \div 100)
        IN  /\ out.totalDays = 75
            /\ out.currentWeight = current
            /\ out.pace \in {"Ahead of schedule", "Behind", "On track"}
            /\ out.pace = "Ahead of schedule" <=> ahead
            /\ out.pace = "Behind" <=> behind
            /\ out.pace = "On track" <=> (~ahead /\ ~behind)
            /\ ~(ahead /\ behind)
            /\ (current = 165 * Unit /\ out.daysPassed = 30) => out.pace = "On track"

\* Current weight 165 at 30 of 75 days: on track.
C20_Witness ==
    /\ call.fn = "bulkProgress"
    /\ Applied(call)
    /\ Len(call.bodyComp) = 2
    /\ call.out.currentWeight = 165 * Unit
    /\ call.bodyComp[2].weight = 170 * Unit
    /\ call.out.daysPassed = 30
    /\ call.out.totalDays = 75
    /\ call.out.pace = "On track"

\* The day of the year of the instant now + days, for days = num / den days
\* (den > 0) and now in half days.
DayAfter(now, num, den) == ((now * den + 2 * num) \div (2 * den)) % 365

\* C21 as stated: in BulkProgress, when at least 3 body-composition samples
\* exist and net gain (current - start weight) is positive, the projected
\* completion date is now + (target - current) / rate days with rate =
\* (current - start) / daysPassed; in every other case the projection stays at
\* the fixed bulk end date.  (target - current) / rate is
\* (target - current) * daysPassed / (current - start).
C21_ProjectionByDaysPassed ==
    (call.fn = "bulkProgress" /\ Applied(call)) =>
        LET current == LatestWeight(call.bodyComp)
            gain    == current - 161 * Unit
        IN  IF Len(call.bodyComp) >= 3 /\ gain > 0
            THEN call.out.projectedDate =
                     [monthDay |-> DayAfter(call.now,
                                            (170 * Unit - current) * call.out.daysPassed,
                                            gain)]
            ELSE call.out.projectedDate = JStr(<<"2026-03-23">>)

\* C21 as amended: as stated, with rate = (current - start) /
\* max(daysPassed, 1).
C21_ProjectionByAtLeastOneDay ==
    (call.fn = "bulkProgress" /\ Applied(call)) =>
        LET current == LatestWeight(call.bodyComp)
            gain    == current - 161 * Unit
            days    == IF call.out.daysPassed < 1 THEN 1 ELSE call.out.daysPassed
        IN  IF Len(call.bodyComp) >= 3 /\ gain > 0
            THEN call.out.projectedDate =
                     [monthDay |-> DayAfter(call.now, (170 * Unit - current) * days, gain)]
            ELSE call.out.projectedDate = JStr(<<"2026-03-23">>)

\* Three samples, current weight 165, at the midnight that begins the bulk
\* (2026-01-07, no day passed): the projection is 5 / 4 days on, 2026-01-08.
C21_Witness ==
    /\ call.fn = "bulkProgress"
    /\ Applied(call)
    /\ Len(call.bodyComp) = 3
    /\ call.out.currentWeight = 165 * Unit
    /\ call.now = 12
    /\ call.out.daysPassed = 0
    /\ call.out.projectedDate = [monthDay |-> 7]

\* C30: in BulkProgress, for every current time (before the bulk start date,
\* within the window, or after the end date) daysPassed lies in
\* [0, totalDays], so the elapsed-time fraction used for pace classification
\* lies in [0, 1].
C30_DaysPassedBounded ==
    (call.fn = "bulkProgress" /\ Applied(call)) =>
        /\ call.out.daysPassed >= 0
        /\ call.out.daysPassed <= call.out.totalDays

\* The class the claim gives a day: thresholds 2700 and 160, and 85% of
\* them, 2295 and 136.
ClassOf(d) ==
    IF d.calories >= 2700 * Unit /\ d.protein >= 160 * Unit THEN "hit"
    ELSE IF d.calories >= 2295 * Unit /\ d.protein >= 136 * Unit THEN "close"
    ELSE "miss"

DotClass(dot) ==
    CASE dot = "dot-green"  -> "hit"
      [] dot = "dot-yellow" -> "close"
      [] dot = "dot-red"    -> "miss"

\* C22: WeeklyTrends considers only the last 7 daily rollups and assigns each
\* exactly one class: "hit" when calories >= 2700 and protein >= 160, "close"
\* when not hit and both calories >= 85% of 2700 and protein >= 85% of 160, and
\* "miss" otherwise; the compliance percentage counts only the "hit" days (it
\* is the share of hit days among them, rounded to a whole percent).
C22_WeeklyClasses ==
    (call.fn = "weeklyTrends" /\ Applied(call)) =>
        LET days == call.dailyData
            n    == Len(days)
            m    == IF n < 7 THEN n ELSE 7
            hits == Cardinality({k \in 1..m : ClassOf(days[n - m + k]) = "hit"})
        IN  IF n = 0 THEN call.out = Null
            ELSE /\ Len(call.out.dots) = m
                 /\ \A k \in 1..m :
                       /\ call.out.dots[k] \in {"dot-green", "dot-yellow", "dot-red"}
                       /\ DotClass(call.out.dots[k]) = ClassOf(days[n - m + k])
                 /\ 2 * Abs(call.out.compliance * m - 100 * hits) <= m
                 /\ hits = 0 => call.out.compliance = 0
                 /\ hits = m <=> call.out.compliance = 100

\* Eight rollups, the oldest a hit and the seven after it not: seven dots, none
\* green, compliance 0.
C22_Witness ==
    /\ call.fn = "weeklyTrends"
    /\ Applied(call)
    /\ Len(call.dailyData) = 8
    /\ ClassOf(call.dailyData[1]) = "hit"
    /\ ClassOf(call.dailyData[2]) = "close"
    /\ \A i \in 3..8 : ClassOf(call.dailyData[i]) = "miss"
    /\ call.out.dots = <<"dot-yellow", "dot-red", "dot-red", "dot-red", "dot-red",
                         "dot-red", "dot-red">>
    /\ call.out.compliance = 0

----------------------------------------------------------------------------
(* Properties of the frontend refresh cycle, under SpecApp *)

\* A response that succeeded: an OK status and a JSON body.
Succeeded(reply) == reply.parsed /\ Ok(reply)

\* A response that carries a non-empty error field.
CarriesError(reply) ==
    reply.parsed /\ "error" \in DOMAIN reply.json /\ reply.json.error # <<>>

Stored(src) ==
    CASE src = "dashboard" -> data
      [] src = "roadmap"   -> roadmap
      [] src = "looks"     -> looks

\* C4: in one refresh cycle over /api/dashboard, /api/roadmap and
\* /api/looksmaxx, a failure of any one source does not abort acceptance of the
\* others: every source whose response succeeded has its payload stored in view
\* state, whichever source it was that failed.
\* Stated for the cycles whose three responses all hold JSON.
C4_SucceededSourcesStored ==
    (last.step = "read" /\ \A s \in Sources : last.replies[s].parsed) =>
        \A src \in Sources :
            Succeeded(last.replies[src]) => Stored(src) = last.replies[src].json

\* The step in which a fetchAll invocation ends, having read its responses.
ReadStep == last' # last /\ last'.step = "read"

\* The step in which a fetchAll invocation ends in its catch clause.
FailedStep ==
    /\ last' # last
    /\ \/ last'.step = "rejected"
       \/ /\ last'.step = "read"
          /\ \/ \E src \in Sources : ~last'.replies[src].parsed
             \/ ~Ok(last'.replies.dashboard)

\* C5: a refresh cycle succeeds (the dashboard payload is stored and no error
\* is shown) whenever /api/dashboard succeeds, whatever the outcome of
\* /api/roadmap and /api/looksmaxx (a non-OK status, a network rejection or an
\* unparsable body); a secondary failure only leaves that secondary's
\* previously stored payload unchanged.
C5_PrimarySuccessSuffices ==
    [][ (ReadStep /\ Succeeded(last'.replies.dashboard)) =>
            /\ data' = last'.replies.dashboard.json
            /\ error' = error
            /\ ~Succeeded(last'.replies.roadmap) => roadmap' = roadmap
            /\ ~Succeeded(last'.replies.looks) => looks' = looks ]_vars

\* C6: when a refresh fails, a user-visible error string is set and the
\* previously loaded dashboard, roadmap and looksmaxx payloads are left
\* unchanged (never reset to empty), for any sequence of successful and failed
\* refreshes.
C6_FailureShowsErrorKeepsData ==
    [][ FailedStep =>
            /\ Truthy(error')
            /\ data' = data
            /\ roadmap' = roadmap
            /\ looks' = looks ]_vars

\* C7: whenever a response received by the frontend carries a non-empty error
\* field (a 200 response of /api/roadmap or /api/looksmaxx included), that error
\* string is surfaced to the user, and the data the responses contain is still
\* rendered.  Stated for the cycles whose three responses all hold JSON, and
\* for the surfacing of the error: some carried error string is the one shown.
C7_ErrorFieldSurfaced ==
    [][ (ReadStep /\ \A s \in Sources : last'.replies[s].parsed) =>
            \A src \in Sources :
                CarriesError(last'.replies[src]) =>
                    \E s \in Sources :
                        /\ CarriesError(last'.replies[s])
                        /\ error' = JStr(last'.replies[s].json.error) ]_vars
\* A fetchAll invocation that has not reached its finally clause.
InFlight(c) == cycles[c].pc \in {"awaiting", "settled"}

\* The fetchAll invocation that completed last stored its dashboard payload.
LastStored ==
    /\ last.step = "read"
    /\ \A s \in Sources : last.replies[s].parsed
    /\ Ok(last.replies.dashboard)

\* C24: when refreshes overlap, nothing orders their results: the dashboard
\* payload in view state is that of the refresh whose responses completed
\* last, also when that refresh was started before one that has already
\* stored its payload.
C24_LastCompletedWins ==
    LastStored => data = last.replies.dashboard.json

\* The first refresh completed after the second: the payload of the second
\* (served at instant 2) was in view state and the older one replaced it.
C24_Witness ==
    /\ LastStored
    /\ last.cycle = 1
    /\ cycles[2].pc = "done"
    /\ last.before.data # Null
    /\ last.before.data.updatedAt = 2
    /\ data.updatedAt = 1

\* C25: within a refresh cycle no stored payload (dashboard, roadmap,
\* looksmaxx) changes before the three responses of that cycle have arrived:
\* every step that changes a payload is the continuation of a cycle none of
\* whose requests is pending.
C25_PayloadsAfterAllResponses ==
    [][ (data' # data \/ roadmap' # roadmap \/ looks' # looks) =>
            \E c \in DOMAIN cycles :
                /\ cycles[c].pc = "settled"
                /\ cycles[c].pending = {}
                /\ cycles'[c].pc = "done"
                /\ last'.cycle = c
                /\ last'.step = "read" ]_vars

\* A cycle stored its payloads once its three responses were in, while the
\* other cycle, still awaiting two responses, had stored nothing.
C25_Witness ==
    /\ LastStored
    /\ data # last.before.data
    /\ roadmap # last.before.roadmap
    /\ looks # last.before.looks
    /\ \E c \in DOMAIN cycles :
          /\ c # last.cycle
          /\ cycles[c].pc = "awaiting"
          /\ Cardinality(cycles[c].pending) = 2

\* C26: after a refresh whose dashboard response succeeds, the stored
\* dashboard payload equals that response exactly, and the derived collections
\* meals, bodyComp and training are those of the new payload.
C26_FullReplacement ==
    [][ (ReadStep /\ Succeeded(last'.replies.dashboard)) =>
            /\ data' = last'.replies.dashboard.json
            /\ memoOf(data', "meals") = last'.replies.dashboard.json.meals
            /\ memoOf(data', "bodyComp") = last'.replies.dashboard.json.bodyComp
            /\ memoOf(data', "training") = last'.replies.dashboard.json.training ]_vars

\* C27: the loading flag is true whenever at least one refresh cycle is in
\* flight, for any interleaving of overlapping refreshes; it is false only
\* when no refresh remains in flight.
C27_LoadingWhileInFlight ==
    (\E c \in DOMAIN cycles : InFlight(c)) => loading = TRUE

\* The fetchAll invocation that completed last ended in its catch clause.
LastFailed ==
    \/ last.step = "rejected"
    \/ /\ last.step = "read"
       /\ \/ \E src \in Sources : ~last.replies[src].parsed
          \/ ~Ok(last.replies.dashboard)

\* C28: whenever no refresh is in flight, the error state is non-null exactly
\* when the most recently completed refresh failed: an error of a failed
\* refresh does not remain once a later-completing refresh has succeeded and
\* stored its data.
C28_ErrorReflectsLastRefresh ==
    (last.step # "none" /\ \A c \in DOMAIN cycles : ~InFlight(c)) =>
        ((error # Null) <=> LastFailed)

----------------------------------------------------------------------------
(* Properties of the sync job, under SpecSync *)

\* The pages of a database whose Date is the given string.
PagesOn(db, date) == {i \in DOMAIN db : db[i].date = date}

\* The step in which the upsert of the current run writes the database.
UpsertStep == job.pc = "write" /\ job'.pc = "done"

\* C23: the upsert of the sync job is keyed by equality of the date string.
\* If the database already holds a record whose Date equals the date of the
\* mapped entry, that record is updated and no record is created; otherwise
\* exactly one new record with that date is created.  Hence a date that had
\* at most one record before a run has exactly one after the upsert, and no
\* run ever makes a second record for a date.
C23_UpsertKeyedByDate ==
    [][ /\ UpsertStep =>
            LET date == job.entry.date
                same == PagesOn(pages, date)
            IN  /\ same # {} =>
                    /\ Len(pages') = Len(pages)
                    /\ \E i \in same :
                          /\ pages'[i].syncedBy = job.run
                          /\ pages'[i].date = date
                          /\ pages'[i].createdBy = pages[i].createdBy
                          /\ \A j \in DOMAIN pages : j # i => pages'[j] = pages[j]
                /\ same = {} =>
                    /\ Len(pages') = Len(pages) + 1
                    /\ SubSeq(pages', 1, Len(pages)) = pages
                    /\ pages'[Len(pages')].date = date
                    /\ pages'[Len(pages')].createdBy = job.run
                /\ Cardinality(same) <= 1 => Cardinality(PagesOn(pages', date)) = 1
        /\ \A i \in DOMAIN pages' :
              Cardinality(PagesOn(pages, pages'[i].date)) <= 1 =>
                  Cardinality(PagesOn(pages', pages'[i].date)) = 1 ]_vars

\* Two later runs have synced a measurement of a date no record existed for:
\* the first created the record, the last updated that same record.
C23_Witness ==
    /\ job.pc = "done"
    /\ job.mode = "update"
    /\ PagesOn(job.before, job.entry.date) # {}
    /\ \E i \in DOMAIN pages :
          /\ pages[i].date = job.entry.date
          /\ pages[i].createdBy > 0
          /\ pages[i].createdBy < job.run
          /\ pages[i].syncedBy = job.run
          /\ PagesOn(pages, job.entry.date) = {i}

\* The steps of a run, in the order of main.
SyncOrder == <<"refresh", "persist", "fetch", "upsert">>

\* C29: a run of the sync job takes its steps in the order token refresh,
\* persist the rotated credentials, fetch the measurements, upsert.  The
\* database is written only by a run that has taken all four steps: never
\* when the token refresh or the measurement fetch failed or when no
\* measurement group came back.  From the fetch on, the file already holds
\* the credentials this run was issued, whatever fails later.
C29_SyncStepOrder ==
    /\ job.trail = SubSeq(SyncOrder, 1, Len(job.trail))
    /\ job.pc = "fetch" => job.trail = SubSeq(SyncOrder, 1, 2)
    /\ job.pc \in {"query", "write", "done"} => job.trail = SyncOrder
    /\ job.pc = "none" => job.trail = SubSeq(SyncOrder, 1, 3)
    /\ (job.pc # "idle" /\ pages # job.before) =>
          job.pc = "done" /\ job.trail = SyncOrder
    /\ Len(job.trail) >= 2 =>
          /\ tokenState # Null
          /\ tokenState.access_token = job.token.access_token
          /\ tokenState.refresh_token = job.token.refresh_token
          /\ job.token = RotatedToken(job.run)

\* A second run failed after its token refresh: the file holds the second
\* run's credentials, the database is as the run found it.
C29_Witness ==
    /\ job.pc = "failed"
    /\ job.run = 2
    /\ job.trail = SyncOrder
    /\ pages = job.before
    /\ tokenState = RotatedToken(2)
============================================================================
